---- MODULE Spec2Model ----
(***************************************************************************)
(* Transcript acquisition pipeline of the MoM Bot transcript service:      *)
(* Notification Intake (webhook handlers), Transcript Discovery (the       *)
(* retry/poll loop of fetchTranscript / fetchUserTranscript), the          *)
(* caption-track parser and the meeting normalizer.                        *)
(*                                                                         *)
(* Strings the code takes apart (resource paths, '@odata.id', transcript   *)
(* text) are sequences of tokens; a token is an indivisible piece of text. *)
(* The empty string is the empty sequence.  Strings the code only compares *)
(* or copies (change types, client states, identifiers of the remote       *)
(* platform) are TLA+ strings.                                             *)
(***************************************************************************)
EXTENDS Integers, Sequences, FiniteSets, TLC

(***************************************************************************)
(* Bounds of the model                                                     *)
(***************************************************************************)
\* notifications in one webhook batch
MaxBatch == 2
\* largest retryAttempts a direct caller of Discovery passes
MaxAttempts == 3
\* longest transcript list the remote platform returns
MaxList == 2
\* most chunks a stream delivers the transcript content in
MaxChunks == 2
\* most blocks (header, blank line, cue, stray line) of a caption-track text
MaxBlocks == 4
\* most blocks of a text parsed one loop iteration at a time
MaxLoopBlocks == 3
\* most words of a meeting title
MaxTitleWords == 3
\* most participant records of a meeting
MaxAttendees == 2
\* most calls of getGraphClient observed on their own
MaxCalls == 3
\* most logins of the browser, most POSTs to the token endpoint for a refresh
MaxLogins == 1
MaxRefreshes == 2

(***************************************************************************)
(* Program constants                                                       *)
(***************************************************************************)
\* setTimeout(resolve, 30000) in processNotification
SettlingDelayMs == 30000
\* default parameters of fetchTranscript / fetchUserTranscript
DefaultRetryAttempts == 3
DefaultRetryDelayMs == 10000

\* JavaScript undefined, for values the code only compares
Undefined == "<undefined>"

\* an optional string: a missing property reads as undefined
Missing == [def |-> FALSE, str |-> <<>>]
Str(s) == [def |-> TRUE, str |-> s]

(***************************************************************************)
(* String operations                                                       *)
(***************************************************************************)
\* position of the first occurrence of pat in s at or after position k, 0 if none
RECURSIVE FindFrom(_, _, _)
FindFrom(s, pat, k) ==
  IF k + Len(pat) - 1 > Len(s) THEN 0
  ELSE IF SubSeq(s, k, k + Len(pat) - 1) = pat THEN k
  ELSE FindFrom(s, pat, k + 1)

\* String.prototype.split with a non-empty separator
RECURSIVE Split(_, _)
Split(s, sep) ==
  LET k == FindFrom(s, sep, 1)
  IN IF k = 0 THEN <<s>>
     ELSE <<SubSeq(s, 1, k - 1)>> \o Split(SubSeq(s, k + Len(sep), Len(s)), sep)

\* Array.prototype.indexOf: zero-based position of the first element equal to x, -1 if none
IndexOf(arr, x) ==
  IF \E k \in 1..Len(arr) : arr[k] = x
  THEN (CHOOSE k \in 1..Len(arr) : arr[k] = x /\ \A j \in 1..(k - 1) : arr[j] # x) - 1
  ELSE -1

\* arr[k] for a zero-based k: undefined outside the array
At(arr, k) == IF k >= 0 /\ k < Len(arr) THEN Str(arr[k + 1]) ELSE Missing

(***************************************************************************)
(* Configuration and inputs of Notification Intake                         *)
(***************************************************************************)
\* values of the environment variable WEBHOOK_CLIENT_STATE
EnvClientStates == {Undefined, "graph-secret"}

\* config.webhook.clientState
ConfigClientState(env) == IF env = Undefined \/ env = "" THEN "my-secret-state" ELSE env

ChangeTypes == {"updated", "deleted", "created"}
ClientStates == {Undefined, "my-secret-state", "graph-secret"}

\* notification.resource: the documented form, a path without the
\* 'onlineMeetings' segment, a path ending in 'onlineMeetings', a path
\* ending in 'onlineMeetings/', and a notification without the property
ResourceOK == <<"communications", "/", "onlineMeetings", "/", "m1">>
Resources ==
  { Str(ResourceOK),
    Str(<<"communications", "/", "m1">>),
    Str(<<"communications", "/", "onlineMeetings">>),
    Str(<<"communications", "/", "onlineMeetings", "/">>),
    Missing }

\* notification.resourceData['@odata.id']
OdataOK == <<"v1.0", "/", "users", "/", "u1", "/", "onlineMeetings", "/", "m1">>
OdataIds ==
  { Str(OdataOK),
    Str(<<"communications", "/", "onlineMeetings", "/", "m1">>),
    Str(<<"users", "/", "u1", "/", "onlineMeetings">>),
    Str(<<"v1.0", "/", "users", "/", "/", "onlineMeetings">>),
    Missing }

\* the notification the remote platform sends for the documented
\* subscription (changeType 'updated') under configuration env
Nominal(env) ==
  [changeType |-> "updated", clientState |-> ConfigClientState(env),
   resource |-> Str(ResourceOK), hasResourceData |-> TRUE, odataId |-> Str(OdataOK)]

\* the notifications of the model: the nominal one, every notification
\* that differs from it in one property, and one with a wrong client state
\* that also lacks the resource
Notifications(env) ==
  { [Nominal(env) EXCEPT !.changeType = c] : c \in ChangeTypes }
  \cup { [Nominal(env) EXCEPT !.clientState = c] : c \in ClientStates }
  \cup { [Nominal(env) EXCEPT !.resource = r] : r \in Resources }
  \cup { [Nominal(env) EXCEPT !.odataId = o] : o \in OdataIds }
  \cup { [Nominal(env) EXCEPT !.hasResourceData = FALSE, !.odataId = Missing],
         [Nominal(env) EXCEPT !.clientState = Undefined, !.resource = Missing] }

\* req.body of POST /webhook: no body, a body without 'value', a body
\* whose 'value' is an array of notifications, or a body whose 'value' is
\* truthy and no array (an object or a number: it has no length and cannot
\* be iterated)
Bodies(env) ==
  { [present |-> FALSE, hasValue |-> FALSE, iterable |-> FALSE, value |-> <<>>],
    [present |-> TRUE, hasValue |-> FALSE, iterable |-> FALSE, value |-> <<>>],
    [present |-> TRUE, hasValue |-> TRUE, iterable |-> FALSE, value |-> <<>>] }
  \cup { [present |-> TRUE, hasValue |-> TRUE, iterable |-> TRUE, value |-> v] :
           v \in UNION { [1..k -> Notifications(env)] : k \in 0..MaxBatch } }

(***************************************************************************)
(* processNotification: identifier extraction                              *)
(***************************************************************************)
\* notification.resource.split('/')
ResourceParts(resource) == Split(resource, <<"/">>)

\* resourceParts.indexOf('onlineMeetings') + 1
MeetingIdIndex(resourceParts) == IndexOf(resourceParts, <<"onlineMeetings">>) + 1

\* meetingIdIndex === 0 || meetingIdIndex >= resourceParts.length
MeetingIdMissing(resourceParts) ==
  LET meetingIdIndex == MeetingIdIndex(resourceParts)
  IN meetingIdIndex = 0 \/ meetingIdIndex >= Len(resourceParts)

\* resourceParts[meetingIdIndex]
ExtractMeetingId(resourceParts) == resourceParts[MeetingIdIndex(resourceParts) + 1]

\* notification.resourceData['@odata.id']?.split('/users/')[1]?.split('/')[0] || ''
ExtractOrganizerId(odataId) ==
  IF ~odataId.def THEN <<>>
  ELSE LET afterUsers == At(Split(odataId.str, <<"/", "users", "/">>), 1)
       IN IF ~afterUsers.def THEN <<>>
          ELSE Split(afterUsers.str, <<"/">>)[1]

\* SyncOutcome without the change-type test
SyncOutcomeAnyChange(n, env) ==
  IF ConfigClientState(env) # "" /\ n.clientState # ConfigClientState(env) THEN "mismatch"
  ELSE IF ~n.resource.def THEN "throw"
  ELSE IF MeetingIdMissing(ResourceParts(n.resource.str)) THEN "noMeeting"
  ELSE IF ~n.hasResourceData THEN "throw"
  ELSE IF ExtractOrganizerId(n.odataId) = <<>> THEN "noOrganizer"
  ELSE "settle"

\* SyncOutcome without the client-state test
SyncOutcomeNoClientState(n, env) ==
  IF ~n.resource.def THEN "throw"
  ELSE IF MeetingIdMissing(ResourceParts(n.resource.str)) THEN "noMeeting"
  ELSE IF ~n.hasResourceData THEN "throw"
  ELSE IF ExtractOrganizerId(n.odataId) = <<>> THEN "noOrganizer"
  ELSE IF n.changeType = "updated" \/ n.changeType = "deleted" THEN "settle"
  ELSE "ignored"

\* How the synchronous part of processNotification ends for notification n:
\*   "throw"    a TypeError reaches the outer catch and is re-thrown
\*   "mismatch" client state mismatch, return
\*   "noMeeting" / "noOrganizer"  identifier not extracted, return
\*   "ignored"  change type is neither 'updated' nor 'deleted', return
\*   "settle"   the settling delay is started
SyncOutcome(n, env) ==
  IF ConfigClientState(env) # "" /\ n.clientState # ConfigClientState(env) THEN "mismatch"
  ELSE IF ~n.resource.def THEN "throw"
  ELSE IF MeetingIdMissing(ResourceParts(n.resource.str)) THEN "noMeeting"
  ELSE IF ~n.hasResourceData THEN "throw"
  ELSE IF ExtractOrganizerId(n.odataId) = <<>> THEN "noOrganizer"
  ELSE IF n.changeType = "updated" \/ n.changeType = "deleted" THEN "settle"
  ELSE "ignored"

(***************************************************************************)
(* Caption-Track Parser (parseVTT)                                         *)
(*                                                                         *)
(* A text is a sequence of tokens: the line break, the blank, the header   *)
(* word, the cue arrow, time tokens (runs of digits, ':' and '.'), the     *)
(* voice tags and words.                                                   *)
(***************************************************************************)
NL == "\n"
SP == " "
TimeTokens == {"00:00:05.000", "00:00:10.000", "00:00:10.500"}

\* String.prototype.trim
RECURSIVE TrimLeft(_)
TrimLeft(l) == IF l # <<>> /\ Head(l) = SP THEN TrimLeft(Tail(l)) ELSE l
RECURSIVE TrimRight(_)
TrimRight(l) ==
  IF l # <<>> /\ l[Len(l)] = SP THEN TrimRight(SubSeq(l, 1, Len(l) - 1)) ELSE l
Trim(l) == TrimRight(TrimLeft(l))

\* Lines that keeps the blank lines
LinesUnfiltered(text) ==
  LET raw == Split(text, <<NL>>)
  IN [k \in 1..Len(raw) |-> Trim(raw[k])]

\* vttContent.split('\n').map(line => line.trim()).filter(line => line.length > 0)
Lines(text) ==
  LET raw == Split(text, <<NL>>)
      trimmed == [k \in 1..Len(raw) |-> Trim(raw[k])]
  IN SelectSeq(trimmed, LAMBDA l : l # <<>>)

\* line.match(/^([\d:\.]+)\s+-->\s+([\d:\.]+)$/): the end of the first
\* capture group, 0 when the line does not match
TimestampEnd(line) ==
  LET ok(a) ==
        \E p \in (a + 2)..(Len(line) - 2) :
          /\ line[p] = "-->"
          /\ \A k \in 1..a : line[k] \in TimeTokens
          /\ \A k \in (a + 1)..(p - 1) : line[k] = SP
          /\ \E b \in (p + 2)..Len(line) :
               /\ \A k \in (p + 1)..(b - 1) : line[k] = SP
               /\ \A k \in b..Len(line) : line[k] \in TimeTokens
  IN IF \E a \in 1..Len(line) : ok(a)
     THEN CHOOSE a \in 1..Len(line) : ok(a)
     ELSE 0

\* the characters of a line as the speaker pattern sees them: '>' and the
\* text before it are separate pieces
RECURSIVE Atoms(_)
Atoms(l) ==
  IF l = <<>> THEN <<>>
  ELSE (CASE Head(l) = "-->" -> <<"--", ">">>
          [] Head(l) = "</v>" -> <<"</v", ">">>
          [] OTHER -> <<Head(l)>>) \o Atoms(Tail(l))

\* the tokens of a run of pieces: '--' followed by '>' is the cue arrow
RECURSIVE Unatoms(_)
Unatoms(a) ==
  IF a = <<>> THEN <<>>
  ELSE IF Len(a) >= 2 /\ a[1] = "--" /\ a[2] = ">"
       THEN <<"-->">> \o Unatoms(SubSeq(a, 3, Len(a)))
       ELSE <<Head(a)>> \o Unatoms(Tail(a))

\* the pieces that contain '<'
LtPieces == {"<v", "</v", "<"}

\* first position at or after k of a piece in set S, Len + 1 if none
FirstIn(a, k, S) ==
  IF \E j \in k..Len(a) : a[j] \in S
  THEN CHOOSE j \in k..Len(a) : a[j] \in S /\ \A o \in k..(j - 1) : a[o] \notin S
  ELSE Len(a) + 1

\* textLine.match(/<v\s+([^>]+)>([^<]*)<\/v>/) tried at position p
SpeakerMatchAt(a, p) ==
  LET q == FirstIn(a, p + 1, {">"})
      r == FirstIn(a, q + 1, LtPieces)
  IN IF /\ a[p] = "<v"
        /\ p + 1 <= Len(a) /\ a[p + 1] = SP
        /\ q <= Len(a) /\ q - (p + 1) >= 2
        /\ r + 1 <= Len(a) /\ a[r] = "</v" /\ a[r + 1] = ">"
     THEN [matched |-> TRUE,
           speaker |-> Trim(SubSeq(a, p + 1, q - 1)),
           text |-> Trim(Unatoms(SubSeq(a, q + 1, r - 1)))]
     ELSE [matched |-> FALSE, speaker |-> <<>>, text |-> <<>>]

\* the leftmost match of the speaker pattern in the line
SpeakerMatch(line) ==
  LET a == Atoms(line)
      hits == { p \in 1..Len(a) : SpeakerMatchAt(a, p).matched }
  IN IF hits = {} THEN [matched |-> FALSE, speaker |-> <<>>, text |-> <<>>]
     ELSE SpeakerMatchAt(a, CHOOSE p \in hits : \A o \in hits : p <= o)

\* Entry whose fallback leaves the speaker empty
EntryNoFallbackSpeaker(startTime, textLine) ==
  LET m == SpeakerMatch(textLine)
  IN IF m.matched
     THEN [timestamp |-> startTime, speaker |-> m.speaker, text |-> m.text]
     ELSE [timestamp |-> startTime, speaker |-> <<>>, text |-> textLine]

\* the entry pushed for a cue: speaker and text of the tag, or the
\* fallback 'Unknown' with the payload line
Entry(startTime, textLine) ==
  LET m == SpeakerMatch(textLine)
  IN IF m.matched
     THEN [timestamp |-> startTime, speaker |-> m.speaker, text |-> m.text]
     ELSE [timestamp |-> startTime, speaker |-> <<"Unknown">>, text |-> textLine]

\* the while loop of parseVTT from line i on
RECURSIVE ParseFrom(_, _)
ParseFrom(lines, i) ==
  IF i > Len(lines) THEN <<>>
  ELSE IF \E k \in 1..Len(lines[i]) : lines[i][k] = "-->"
  THEN IF TimestampEnd(lines[i]) > 0 /\ i + 1 <= Len(lines)
       THEN <<Entry(SubSeq(lines[i], 1, TimestampEnd(lines[i])), lines[i + 1])>>
            \o ParseFrom(lines, i + 2)
       ELSE ParseFrom(lines, i + 1)
  ELSE ParseFrom(lines, i + 1)

parseVTT(vttContent) ==
  LET lines == Lines(vttContent)
  IN ParseFrom(lines, IF lines # <<>> /\ lines[1] = <<"WEBVTT">> THEN 2 ELSE 1)

\* Buffer.concat(chunks), and the copy loop of streamToString
RECURSIVE Concat(_)
Concat(chunks) == IF chunks = <<>> THEN <<>> ELSE Head(chunks) \o Concat(Tail(chunks))

(***************************************************************************)
(* Caption-track texts: a text is a sequence of blocks, a block one or     *)
(* more lines                                                              *)
(***************************************************************************)
\* 'start --> end'
TimeRange(start, end) == <<start, SP, "-->", SP, end>>

\* '<v Name>text</v>'
Tagged(name, text) == <<"<v", SP>> \o name \o <<">">> \o text \o <<"</v>">>

\* the cues of the texts: time range, speaker (tagged cues) and payload
\* text as written, with the blanks around it
Cues ==
  [cueA |-> [start |-> "00:00:05.000", end |-> "00:00:10.000", tagged |-> TRUE,
             speaker |-> <<"John", SP, "Smith">>, text |-> <<"Good", SP, "morning">>],
   cueB |-> [start |-> "00:00:10.500", end |-> "00:00:10.000", tagged |-> TRUE,
             speaker |-> <<"Ana">>, text |-> <<SP, "Hola", SP>>],
   untagged |-> [start |-> "00:00:05.000", end |-> "00:00:10.000", tagged |-> FALSE,
                 speaker |-> <<>>, text |-> <<SP, "Good", SP, "morning", SP>>],
   untaggedBare |-> [start |-> "00:00:10.000", end |-> "00:00:10.500", tagged |-> FALSE,
                     speaker |-> <<>>, text |-> <<"Thanks">>]]
CueKinds == DOMAIN Cues
TaggedKinds == { k \in CueKinds : Cues[k].tagged }

BlockKinds == CueKinds \cup {"header", "blank", "time", "note", "badTime", "blankSpeaker"}

\* the lines of a block; cueB is indented and has a line of blanks between
\* its time range and its payload; the tag of blankSpeaker holds two blanks
\* and no name
BlockLines(kind) ==
  CASE kind = "header" -> << <<"WEBVTT">> >>
    [] kind = "blank" -> << <<>> >>
    [] kind = "time" -> << TimeRange("00:00:10.500", "00:00:10.000") >>
    [] kind = "note" -> << <<"NOTE">> >>
    [] kind = "badTime" -> << <<"00:00:05.000", SP, "-->">> >>
    [] kind = "blankSpeaker" ->
         << TimeRange("00:00:05.000", "00:00:10.000"), Tagged(<<SP>>, <<"Hi">>) >>
    [] kind = "cueB" ->
         << <<SP>> \o TimeRange(Cues[kind].start, Cues[kind].end) \o <<SP>>,
            <<SP>>,
            <<SP>> \o Tagged(Cues[kind].speaker, Cues[kind].text) >>
    [] kind \in TaggedKinds ->
         << TimeRange(Cues[kind].start, Cues[kind].end),
            Tagged(Cues[kind].speaker, Cues[kind].text) >>
    [] OTHER ->
         << TimeRange(Cues[kind].start, Cues[kind].end), Cues[kind].text >>

\* the text of a sequence of blocks: every line ends with a line break
RECURSIVE JoinLines(_)
JoinLines(ls) == IF ls = <<>> THEN <<>> ELSE Head(ls) \o <<NL>> \o JoinLines(Tail(ls))
Render(blocks) == JoinLines(Concat([k \in 1..Len(blocks) |-> BlockLines(blocks[k])]))

\* the entries written back as raw cues: for each entry a time-range line
\* with the entry's timestamp and the payload line '<v speaker>text</v>'
Reserialize(entries) ==
  JoinLines(Concat([k \in 1..Len(entries) |->
    << entries[k].timestamp \o <<SP, "-->", SP>> \o entries[k].timestamp,
       Tagged(entries[k].speaker, entries[k].text) >>]))

\* the caption-track texts handed to parseVTT
Documents == UNION { [1..n -> BlockKinds] : n \in 0..MaxBlocks }

(***************************************************************************)
(* The TranscriptData record: meeting type, duration, attendees            *)
(***************************************************************************)
\* a JavaScript string is truthy when it is there and not empty
Truthy(opt) == opt.def /\ opt.str # <<>>
\* opt || fallback
OrElse(opt, fallback) == IF Truthy(opt) THEN opt.str ELSE fallback

\* String.prototype.toLowerCase on the words of the titles
LowerCaseOf(w) ==
  CASE w = "Daily" -> "daily"
    [] w = "STANDUP" -> "standup"
    [] w = "Standup" -> "standup"
    [] w = "Tech" -> "tech"
    [] w = "PRODUCT" -> "product"
    [] w = "Refinement" -> "refinement"
    [] w = "Sync" -> "sync"
    [] OTHER -> w
ToLowerCase(s) == [k \in 1..Len(s) |-> LowerCaseOf(s[k])]

\* String.prototype.includes for a keyword
Includes(s, w) == \E k \in 1..Len(s) : s[k] = w

\* determineMeetingType that compares the title as written
determineMeetingTypeCaseSensitive(title) ==
  LET lowerTitle == title
  IN IF Includes(lowerTitle, "daily") \/ Includes(lowerTitle, "standup") THEN "daily"
     ELSE IF Includes(lowerTitle, "tech") /\ Includes(lowerTitle, "refinement")
          THEN "tech-refinement"
     ELSE IF Includes(lowerTitle, "product") /\ Includes(lowerTitle, "refinement")
          THEN "product-refinement"
     ELSE "other"

determineMeetingType(title) ==
  LET lowerTitle == ToLowerCase(title)
  IN IF Includes(lowerTitle, "daily") \/ Includes(lowerTitle, "standup") THEN "daily"
     ELSE IF Includes(lowerTitle, "tech") /\ Includes(lowerTitle, "refinement")
          THEN "tech-refinement"
     ELSE IF Includes(lowerTitle, "product") /\ Includes(lowerTitle, "refinement")
          THEN "product-refinement"
     ELSE "other"

\* a JavaScript number: an integer or NaN
NaN == [nan |-> TRUE, val |-> 0]
Num(v) == [nan |-> FALSE, val |-> v]

\* ISO 8601 timestamps 'dayTtimeZ'; milliseconds are counted from
\* 2024-01-15T00:00:00Z, which leaves every difference as it is
Days == {"2024-01-15", "2024-01-16"}
DayMs(day) == IF day = "2024-01-16" THEN 86400000 ELSE 0
TimesOfDay == {"09:00:00", "09:00:29.999", "09:00:30", "09:15:00"}
TimeOfDayMs(time) ==
  CASE time = "09:00:00" -> 32400000
    [] time = "09:00:29.999" -> 32429999
    [] time = "09:00:30" -> 32430000
    [] time = "09:15:00" -> 33300000
Timestamp(day, time) == <<day, "T", time, "Z">>
Timestamps == { Timestamp(d, t) : d \in Days, t \in TimesOfDay }

\* new Date(s).getTime(): NaN for a string that is not a timestamp
GetTime(s) ==
  IF Len(s) = 4 /\ s[1] \in Days /\ s[2] = "T" /\ s[3] \in TimesOfDay /\ s[4] = "Z"
  THEN Num(DayMs(s[1]) + TimeOfDayMs(s[3]))
  ELSE NaN

\* Math.round(ms / 1000 / 60): the nearest integer, a half goes up
RoundMinutes(ms) == IF ms.nan THEN NaN ELSE Num((ms.val + 30000) \div 60000)

\* calculateDuration with Math.floor in the place of Math.round
calculateDurationFloor(startDateTime, endDateTime) ==
  LET start == GetTime(startDateTime)
      end == GetTime(endDateTime)
  IN IF end.nan \/ start.nan THEN NaN ELSE Num((end.val - start.val) \div 60000)

calculateDuration(startDateTime, endDateTime) ==
  LET start == GetTime(startDateTime)
      end == GetTime(endDateTime)
      durationMs == IF end.nan \/ start.nan THEN NaN ELSE Num(end.val - start.val)
  IN RoundMinutes(durationMs)

\* participant records: null, without emailAddress, or with an
\* emailAddress whose name and address are missing, empty or there
NullAttendee == [present |-> FALSE, emailAddress |-> FALSE, name |-> Missing, address |-> Missing]
BareAttendee == [present |-> TRUE, emailAddress |-> FALSE, name |-> Missing, address |-> Missing]
Attendee(name, address) ==
  [present |-> TRUE, emailAddress |-> TRUE, name |-> name, address |-> address]
AttendeeRecords ==
  {NullAttendee, BareAttendee}
  \cup { Attendee(n, a) : n \in {Missing, Str(<<>>), Str(<<"John", SP, "Smith">>)},
                          a \in {Missing, Str(<<>>), Str(<<"john@contoso.com">>)} }

\* meetingInfo.participants: missing, without attendees, or with a list
NoParticipants == [def |-> FALSE, hasAttendees |-> FALSE, attendees |-> <<>>]
EmptyParticipants == [def |-> TRUE, hasAttendees |-> FALSE, attendees |-> <<>>]
Participants(list) == [def |-> TRUE, hasAttendees |-> TRUE, attendees |-> list]

\* the map callback of the attendees
AttendeeEntry(attendee) ==
  [name |-> OrElse(attendee.name, OrElse(attendee.address, <<"Unknown">>)),
   email |-> OrElse(attendee.address, <<"unknown@email.com">>)]

\* AttendeesOf that keeps the records without emailAddress
AttendeesUnfiltered(participants) ==
  LET list == IF participants.def /\ participants.hasAttendees
              THEN participants.attendees ELSE <<>>
  IN [k \in 1..Len(list) |-> AttendeeEntry(list[k])]

\* (meetingInfo.participants?.attendees || []).filter(...).map(...)
AttendeesOf(participants) ==
  LET list == IF participants.def /\ participants.hasAttendees
              THEN participants.attendees ELSE <<>>
      kept == SelectSeq(list, LAMBDA a : a.present /\ a.emailAddress)
  IN [k \in 1..Len(kept) |-> AttendeeEntry(kept[k])]

\* TranscriptFields with the empty string as title of a meeting without subject
TranscriptFieldsNoSentinel(info) ==
  [meetingTitle |-> OrElse(info.subject, <<>>),
   meetingType |-> determineMeetingType(OrElse(info.subject, <<>>)),
   duration |-> calculateDuration(OrElse(info.startDateTime, <<>>),
                                  OrElse(info.endDateTime, <<>>)),
   attendees |-> AttendeesOf(info.participants)]

\* the fields of the TranscriptData record that come from the meeting
\* metadata
TranscriptFields(info) ==
  [meetingTitle |-> OrElse(info.subject, <<"Untitled Meeting">>),
   meetingType |-> determineMeetingType(OrElse(info.subject, <<>>)),
   duration |-> calculateDuration(OrElse(info.startDateTime, <<>>),
                                  OrElse(info.endDateTime, <<>>)),
   attendees |-> AttendeesOf(info.participants)]

\* meeting metadata
MeetingInfo(subject, startDateTime, endDateTime, participants) ==
  [subject |-> subject, startDateTime |-> startDateTime, endDateTime |-> endDateTime,
   participants |-> participants]
NominalInfo ==
  MeetingInfo(Str(<<"Daily", SP, "Standup">>),
              Str(Timestamp("2024-01-15", "09:00:00")), Str(Timestamp("2024-01-15", "09:15:00")),
              Participants(<<Attendee(Str(<<"John", SP, "Smith">>), Str(<<"john@contoso.com">>))>>))

\* the titles: up to MaxTitleWords words, in the cases they are written in
TitleWords == {"Daily", "STANDUP", "Tech", "PRODUCT", "Refinement", "Sync", SP}
Titles == UNION { [1..n -> TitleWords] : n \in 0..MaxTitleWords }
\* the participant lists: up to MaxAttendees records
AttendeeLists == UNION { [1..n -> AttendeeRecords] : n \in 0..MaxAttendees }

\* the metadata the record construction is called on: every title, every
\* pair of start and end, every participants structure
MetadataCases ==
  { [NominalInfo EXCEPT !.subject = s] : s \in {Missing} \cup { Str(t) : t \in Titles } }
  \cup { [NominalInfo EXCEPT !.startDateTime = s, !.endDateTime = e] :
           s \in {Missing, Str(<<"soon">>)} \cup { Str(t) : t \in Timestamps },
           e \in {Missing, Str(<<"soon">>)} \cup { Str(t) : t \in Timestamps } }
  \cup { [NominalInfo EXCEPT !.participants = p] :
           p \in {NoParticipants, EmptyParticipants} \cup { Participants(l) : l \in AttendeeLists } }

(***************************************************************************)
(* The remote platform                                                     *)
(***************************************************************************)
\* errors of the API client; statusCode 0 stands for an error without one
Http404 == [statusCode |-> 404, message |-> "Not Found"]
RemoteErrors == {Http404, [statusCode |-> 503, message |-> "Service Unavailable"]}
\* new Error(message)
DomainError(msg) == [statusCode |-> 0, message |-> msg]
NoError == [statusCode |-> 0, message |-> ""]

\* metadata without any property
NoMeetingInfo == MeetingInfo(Missing, Missing, Missing, NoParticipants)

\* the meeting metadata the remote platform returns to Discovery: complete;
\* without any property; with an empty subject, the end before the start
\* and participant records without emailAddress or address; without end
\* and with records without name; without start and attendees
MeetingInfos ==
  { NominalInfo,
    NoMeetingInfo,
    MeetingInfo(Str(<<>>),
                Str(Timestamp("2024-01-15", "09:15:00")), Str(Timestamp("2024-01-15", "09:00:00")),
                Participants(<<NullAttendee, BareAttendee,
                               Attendee(Str(<<"John", SP, "Smith">>), Missing)>>)),
    MeetingInfo(Str(<<"Tech", SP, "Refinement">>),
                Str(Timestamp("2024-01-15", "09:00:00")), Missing,
                Participants(<<Attendee(Missing, Str(<<"john@contoso.com">>)),
                               Attendee(Str(<<>>), Str(<<>>))>>)),
    MeetingInfo(Str(<<"Sync">>),
                Missing, Str(Timestamp("2024-01-16", "09:00:30")),
                EmptyParticipants) }

\* transcript lists (the ids of the TranscriptMetadata elements): of every
\* length up to MaxList, with either id first and the other id after it
TranscriptIds == {"t1", "t2"}
TranscriptLists ==
  { [k \in 1..n |-> IF k = 1 THEN first ELSE CHOOSE t \in TranscriptIds : t # first] :
      n \in 0..MaxList, first \in TranscriptIds }

\* transcript texts
SampleVTT ==
  <<"WEBVTT", NL, NL, "00:00:05.000", SP, "-->", SP, "00:00:10.000", NL,
    "<v", SP, "John", SP, "Smith", ">", "Good", SP, "morning", "</v>", NL>>
UntaggedVTT == <<"00:00:05.000", SP, "-->", SP, "00:00:10.000", NL, SP, "Good", SP, "morning">>
\* a speaker name with a character that takes two bytes in UTF-8
EAcute == "e-acute"
AccentVTT ==
  <<"00:00:10.500", SP, "-->", SP, "00:00:10.000", NL,
    "<v", SP, "Jos", EAcute, ">", "Hola", "</v>">>
Contents == {SampleVTT, UntaggedVTT, AccentVTT}

\* UTF-8: every character of the texts is one byte, written like the
\* character, except EAcute, which is the two bytes C3 A9; a byte sequence
\* that is not a character decodes to U+FFFD
Replacement == "U+FFFD"
RECURSIVE Utf8Encode(_)
Utf8Encode(text) ==
  IF text = <<>> THEN <<>>
  ELSE (IF Head(text) = EAcute THEN <<"C3", "A9">> ELSE <<Head(text)>>)
       \o Utf8Encode(Tail(text))

\* Buffer.toString('utf-8') and new TextDecoder('utf-8').decode
RECURSIVE Utf8Decode(_)
Utf8Decode(bytes) ==
  IF bytes = <<>> THEN <<>>
  ELSE IF Head(bytes) = "C3" /\ Len(bytes) >= 2 /\ bytes[2] = "A9"
  THEN <<EAcute>> \o Utf8Decode(SubSeq(bytes, 3, Len(bytes)))
  ELSE IF Head(bytes) \in {"C3", "A9"}
  THEN <<Replacement>> \o Utf8Decode(Tail(bytes))
  ELSE <<Head(bytes)>> \o Utf8Decode(Tail(bytes))

\* where a stream may cut its bytes into chunks: after a line end and
\* inside a two-byte character
SplitPoints(bytes) == { k \in 1..(Len(bytes) - 1) : bytes[k] \in {NL, "C3"} }

\* bytes cut after the positions in cuts
RECURSIVE CutAt(_, _)
CutAt(bytes, cuts) ==
  IF cuts = {} THEN <<bytes>>
  ELSE LET k == CHOOSE c \in cuts : \A o \in cuts : c <= o
       IN <<SubSeq(bytes, 1, k)>>
          \o CutAt(SubSeq(bytes, k + 1, Len(bytes)), { c - k : c \in cuts \ {k} })

\* the ways a stream delivers bytes in at most MaxChunks chunks
Chunkings(bytes) ==
  { CutAt(bytes, cuts) :
      cuts \in { c \in SUBSET SplitPoints(bytes) : Cardinality(c) < MaxChunks } }

\* the shapes .get() resolves to for the content endpoint: a string, a
\* Buffer, a ReadableStream (pull), a Node.js stream (push), a fetch
\* Response, and anything else
TextResponse(text) == [shape |-> "string", text |-> text, chunks |-> <<>>]
BufferResponse(text) == [shape |-> "buffer", text |-> <<>>, chunks |-> <<Utf8Encode(text)>>]
StreamResponses(shape, text) ==
  { [shape |-> shape, text |-> <<>>, chunks |-> c] : c \in Chunkings(Utf8Encode(text)) }
OtherResponse == [shape |-> "other", text |-> <<>>, chunks |-> <<>>]

\* the text the remote platform sent in a response
ResponseText(resp) ==
  IF resp.shape = "string" THEN resp.text ELSE Utf8Decode(Concat(resp.chunks))

\* content responses in the four transport shapes
ShapedResponses ==
  UNION { {TextResponse(t), BufferResponse(t)} : t \in Contents }
  \cup StreamResponses("pull", AccentVTT) \cup StreamResponses("push", AccentVTT)
  \cup { [shape |-> sh, text |-> <<>>, chunks |-> <<>>] : sh \in {"pull", "push"} }
ContentResponses ==
  ShapedResponses \cup {OtherResponse}
  \cup { [shape |-> "fetchResponse", text |-> <<>>, chunks |-> <<Utf8Encode(UntaggedVTT)>>] }

\* what the remote platform may answer: to the callers of Discovery in
\* general, and on the notification path (one meeting, one transcript as
\* text, a list call without a transcript answered 404)
FullRemote ==
  [infos |-> MeetingInfos, lists |-> TranscriptLists, contents |-> ContentResponses,
   errors |-> RemoteErrors]
NotificationRemote ==
  [infos |-> {NominalInfo},
   lists |-> {<<"t1">>}, contents |-> {TextResponse(SampleVTT)},
   errors |-> RemoteErrors]

(***************************************************************************)
(* State                                                                   *)
(***************************************************************************)
VARIABLES
  env,    \* WEBHOOK_CLIENT_STATE of the process
  hpc,    \* handleWebhookNotification: "idle", "loop" (in its for loop), "returned",
          \* "threw" (its catch block threw)
  body,   \* req.body of the webhook request
  next,   \* position in notifications.value of the for loop
  res,    \* the HTTP statuses of the responses the handler sent, or tried to
          \* send, on res, in order
  query,  \* req.query.validationToken of the validation request
  reply,  \* content type and body sent on res by handleWebhookValidation
  parser, \* a call of parseVTT on its own: its argument and what it returns
  meta,   \* the construction of a TranscriptData record on its own
  graphClient, \* the module variable graphClient of graphClient.ts
  gc,     \* the calls of getGraphClient observed on their own: what each returned
  auth,   \* the session of one browser, the clock, and the request that is
          \* waiting for the token endpoint
  manual, \* handleManualTrigger: the request, where the handler is, its responses
  task,   \* one processNotification call per notification of the batch
  disc    \* one Transcript Discovery invocation per slot

vars == <<env, hpc, body, next, res, query, reply, parser, meta, graphClient, gc, auth,
         manual, task, disc>>

Slots == 1..MaxBatch

NoBody == [present |-> FALSE, hasValue |-> FALSE, iterable |-> FALSE, value |-> <<>>]

\* the fields of a record not yet built
NoFields == [meetingTitle |-> <<>>, meetingType |-> "", duration |-> Num(0), attendees |-> <<>>]

\* no record construction on its own
IdleMeta == [pc |-> "idle", info |-> NoMeetingInfo, fields |-> NoFields]

\* no manual-trigger request
IdleManual ==
  [pc |-> "idle", session |-> FALSE, meetingId |-> Missing, joinUrl |-> Missing,
   organizerId |-> Missing, lookups |-> 0, lookup |-> "", refreshes |-> 0,
   responses |-> <<>>]

\* getGraphClient not called on its own
NoCalls == [attempts |-> 0, built |-> 0, handle |-> 0, returned |-> <<>>]

\* a TokenResponse; def is FALSE when there is none (session.tokens
\* undefined); userId and userEmail are optional properties
NoTokens ==
  [def |-> FALSE, accessToken |-> <<>>, refreshToken |-> <<>>, expiresAt |-> 0,
   userId |-> Missing, userEmail |-> Missing]

\* no answer of the token endpoint
NoTokenReply ==
  [ok |-> FALSE, status |-> 0, access_token |-> <<>>, refresh_token |-> Missing,
   expires_in |-> 0]

\* nothing returned by getValidAccessToken
NoResult == [kind |-> "", tokens |-> NoTokens]

\* a browser that has not logged in, at time 0 of the clock (milliseconds);
\* login is the TokenResponse stored at login; given, asked, posts, reply
\* and result describe the newest call of getValidAccessToken: its argument,
\* Date.now() at the call, its POSTs to the token endpoint, the answer to
\* them and what the call returned
NoSession ==
  [pc |-> "idle", route |-> "", now |-> 0, tokens |-> NoTokens, login |-> NoTokens,
   logins |-> 0, issued |-> 0, netCalls |-> 0,
   given |-> NoTokens, asked |-> 0, posts |-> 0, reply |-> NoTokenReply, result |-> NoResult]

\* parseVTT not called on its own; cues records, for every entry pushed,
\* the indices of the two lines it was made of
IdleParser ==
  [pc |-> "idle", blocks |-> <<>>, vttContent |-> <<>>, entries |-> <<>>,
   lines |-> <<>>, i |-> 0, cues |-> <<>>, error |-> ""]

\* nothing written on res
NoReply == [type |-> "", body |-> <<>>]

\* processNotification not yet called
NoTask == [pc |-> "none", outcome |-> "", meetingId |-> <<>>, organizerId |-> <<>>,
           waitedMs |-> 0, logged |-> ""]

\* no Discovery invocation
IdleDisc ==
  [pc |-> "idle", mode |-> "", meetingId |-> <<>>, organizerId |-> <<>>,
   retryAttempts |-> 0, retryDelayMs |-> 0, attempt |-> 0, transcripts |-> <<>>,
   meetingInfo |-> NoMeetingInfo, metaCalls |-> 0, listCalls |-> 0, emptyLists |-> 0,
   sleeps |-> 0,
   contentIds |-> <<>>, parsed |-> FALSE, error |-> NoError,
   log |-> <<>>, remoteError |-> NoError, answers |-> <<>>,
   shape |-> "", sent |-> <<>>, pending |-> <<>>, chunks |-> <<>>, vttContent |-> <<>>,
   result |-> [meetingId |-> <<>>, meetingTitle |-> <<>>, meetingType |-> "",
               duration |-> Num(0), attendees |-> <<>>, transcript |-> <<>>]]

Init ==
  /\ env \in EnvClientStates
  /\ hpc = "idle"
  /\ body = NoBody
  /\ next = 0
  /\ res = <<>>
  /\ query = Missing
  /\ reply = NoReply
  /\ parser = IdleParser
  /\ meta = IdleMeta
  /\ graphClient = "null"
  /\ gc = NoCalls
  /\ auth = NoSession
  /\ manual = IdleManual
  /\ task = [i \in Slots |-> NoTask]
  /\ disc = [i \in Slots |-> IdleDisc]

(***************************************************************************)
(* Transcript Discovery: fetchTranscript / fetchUserTranscript             *)
(***************************************************************************)
\* the call of fetchTranscript (mode "app") or fetchUserTranscript (mode
\* "delegated") up to its first await: getMeetingInfo has sent its GET
\* getGraphClient(): the client of the module, created by the first call
getGraphClient(client) == IF client = "null" THEN "client" ELSE client

\* the module variable after an invocation has started: application mode
\* calls getGraphClient() in getMeetingInfo, delegated mode makes a client
\* of its own from the access token
ClientAfter(mode, client) == IF mode = "app" THEN getGraphClient(client) ELSE client

\* what an invocation is told: the answer of the remote platform to one of
\* its calls, a timer that fires, a chunk or the end of its stream
Answer(kind, ok, info, list, resp, err) ==
  [kind |-> kind, ok |-> ok, info |-> info, list |-> list, resp |-> resp, err |-> err]
InfoAnswer(ok, info, err) == Answer("info", ok, info, <<>>, TextResponse(<<>>), err)
ListAnswer(ok, list, err) == Answer("list", ok, NoMeetingInfo, list, TextResponse(<<>>), err)
ContentAnswer(ok, resp, err) == Answer("content", ok, NoMeetingInfo, <<>>, resp, err)
EventAnswer(kind, err) == Answer(kind, TRUE, NoMeetingInfo, <<>>, TextResponse(<<>>), err)

\* the invocation with one more answer on its record
Heard(d, a) == [d EXCEPT !.answers = Append(@, a)]

StartDiscovery(mode, meetingId, organizerId, retryAttempts, retryDelayMs) ==
  [IdleDisc EXCEPT !.pc = "meetingInfo", !.mode = mode, !.meetingId = meetingId,
                   !.organizerId = organizerId, !.retryAttempts = retryAttempts,
                   !.retryDelayMs = retryDelayMs, !.metaCalls = 1,
                   !.log = <<"meta">>]

\* throw inside fetchTranscript: the invocation ends with error e (its
\* locals meetingInfo and transcripts are gone)
Fail(d, e) ==
  [d EXCEPT !.pc = "failed", !.error = e, !.meetingInfo = NoMeetingInfo,
            !.transcripts = <<>>, !.pending = <<>>, !.chunks = <<>>]

\* 'Transcript not available. Possible reasons: ...'
NotAvailable == DomainError("Transcript not available")

\* LoopHead with the loop condition off by one (attempt <= retryAttempts)
LoopHeadOffByOne(d) ==
  IF d.attempt <= d.retryAttempts
  THEN [d EXCEPT !.pc = "listing", !.listCalls = @ + 1]
  ELSE Fail(d, DomainError("Transcript not available"))

\* LoopHead of a do-while loop: the first list call is made whatever the
\* attempt count
LoopHeadAtLeastOnce(d) ==
  IF d.attempt < d.retryAttempts \/ d.attempt = 0
  THEN [d EXCEPT !.pc = "listing", !.listCalls = @ + 1, !.log = Append(@, "list"),
                 !.remoteError = NoError]
  ELSE Fail(d, NotAvailable)

\* the while condition (attempt < retryAttempts) and what follows it: the
\* next list call, or the check of transcripts.length after the loop
LoopHead(d) ==
  IF d.attempt < d.retryAttempts
  THEN [d EXCEPT !.pc = "listing", !.listCalls = @ + 1, !.log = Append(@, "list"),
                 !.remoteError = NoError]
  ELSE Fail(d, NotAvailable)

\* new Error('Meeting not found') of getMeetingInfo, new Error('Meeting not
\* found or access denied') of getUserMeetingInfo
MeetingNotFound(mode) ==
  DomainError(IF mode = "app" THEN "Meeting not found"
              ELSE "Meeting not found or access denied")

\* MeetingInfoResult that turns every failure into 'meeting not found'
MeetingInfoResultAll404(d, ok, info, err) ==
  IF ok THEN LoopHead([d EXCEPT !.meetingInfo = info, !.transcripts = <<>>, !.attempt = 0])
  ELSE Fail([d EXCEPT !.remoteError = err], MeetingNotFound(d.mode))

\* getMeetingInfo / getUserMeetingInfo returns or throws
MeetingInfoResult(d, ok, info, err) ==
  IF ok THEN LoopHead([d EXCEPT !.meetingInfo = info, !.transcripts = <<>>, !.attempt = 0])
  ELSE IF err.statusCode = 404
       THEN Fail([d EXCEPT !.remoteError = err], MeetingNotFound(d.mode))
       ELSE Fail([d EXCEPT !.remoteError = err], err)

\* LatestTranscript taking the last element of the list
LatestTranscriptLast(transcripts) == transcripts[Len(transcripts)]

\* const latestTranscript = transcripts[0] (its id)
LatestTranscript(transcripts) == transcripts[1]

\* what listTranscripts / listUserTranscripts returns: response.value || [],
\* and [] on a 404
Listed(ok, list, err) == IF ok THEN list ELSE <<>>

\* ListResult without the break on a non-empty list: the loop polls again
\* while attempts remain
ListResultNoBreak(d, ok, list, err) ==
  LET got == Listed(ok, list, err)
      logged == [d EXCEPT !.emptyLists = IF Len(got) = 0 THEN @ + 1 ELSE @]
  IN IF ~ok /\ err.statusCode # 404 THEN Fail(d, err)
     ELSE IF d.attempt + 1 < d.retryAttempts
     THEN [logged EXCEPT !.transcripts = got, !.attempt = @ + 1, !.pc = "sleeping",
                         !.sleeps = @ + 1]
     ELSE IF Len(got) > 0
     THEN [logged EXCEPT !.transcripts = got, !.pc = "content",
                         !.contentIds = Append(@, got[1])]
     ELSE LoopHead([logged EXCEPT !.transcripts = got, !.attempt = @ + 1])

\* ListResult where a 404 of the list call fails the invocation
ListResult404Fails(d, ok, list, err) ==
  LET got == Listed(ok, list, err)
      logged == [d EXCEPT !.emptyLists = IF Len(got) = 0 /\ ok THEN @ + 1 ELSE @,
                          !.remoteError = IF ok THEN NoError ELSE err]
  IN IF ~ok THEN Fail([d EXCEPT !.remoteError = err], err)
     ELSE IF Len(got) > 0
     THEN [logged EXCEPT !.transcripts = got, !.pc = "content",
                         !.contentIds = Append(@, LatestTranscript(got)),
                         !.log = Append(@, "content")]
     ELSE IF d.attempt + 1 < d.retryAttempts
     THEN [logged EXCEPT !.transcripts = got, !.attempt = @ + 1, !.pc = "sleeping",
                         !.sleeps = @ + 1, !.log = Append(@, "sleep")]
     ELSE LoopHead([logged EXCEPT !.transcripts = got, !.attempt = @ + 1])

\* ListResult of a listTranscripts that returns [] on every error: the
\* loop goes on after a failed list call
ListResultRetryOnError(d, ok, list, err) ==
  LET got == Listed(ok, list, err)
      logged == [d EXCEPT !.emptyLists = IF Len(got) = 0 THEN @ + 1 ELSE @,
                          !.remoteError = IF ok THEN NoError ELSE err]
  IN IF Len(got) > 0
     THEN [logged EXCEPT !.transcripts = got, !.pc = "content",
                         !.contentIds = Append(@, LatestTranscript(got)),
                         !.log = Append(@, "content")]
     ELSE IF d.attempt + 1 < d.retryAttempts
     THEN [logged EXCEPT !.transcripts = got, !.attempt = @ + 1, !.pc = "sleeping",
                         !.sleeps = @ + 1, !.log = Append(@, "sleep")]
     ELSE LoopHead([logged EXCEPT !.transcripts = got, !.attempt = @ + 1])

\* ListResult that sleeps after every empty attempt, the last one too
ListResultSleepAfterLast(d, ok, list, err) ==
  LET got == Listed(ok, list, err)
      logged == [d EXCEPT !.emptyLists = IF Len(got) = 0 THEN @ + 1 ELSE @,
                          !.remoteError = IF ok THEN NoError ELSE err]
  IN IF ~ok /\ err.statusCode # 404 THEN Fail([d EXCEPT !.remoteError = err], err)
     ELSE IF Len(got) > 0
     THEN [logged EXCEPT !.transcripts = got, !.pc = "content",
                         !.contentIds = Append(@, LatestTranscript(got)),
                         !.log = Append(@, "content")]
     ELSE [logged EXCEPT !.transcripts = got, !.attempt = @ + 1, !.pc = "sleeping",
                         !.sleeps = @ + 1, !.log = Append(@, "sleep")]

\* listTranscripts / listUserTranscripts returns or throws, and the rest of
\* the loop body
ListResult(d, ok, list, err) ==
  LET got == Listed(ok, list, err)
      logged == [d EXCEPT !.emptyLists = IF Len(got) = 0 THEN @ + 1 ELSE @,
                          !.remoteError = IF ok THEN NoError ELSE err]
  IN IF ~ok /\ err.statusCode # 404 THEN Fail([d EXCEPT !.remoteError = err], err)
     ELSE IF Len(got) > 0
     THEN [logged EXCEPT !.transcripts = got, !.pc = "content",
                         !.contentIds = Append(@, LatestTranscript(got)),
                         !.log = Append(@, "content")]
     ELSE IF d.attempt + 1 < d.retryAttempts
     THEN [logged EXCEPT !.transcripts = got, !.attempt = @ + 1, !.pc = "sleeping",
                         !.sleeps = @ + 1, !.log = Append(@, "sleep")]
     ELSE LoopHead([logged EXCEPT !.transcripts = got, !.attempt = @ + 1])

\* ContentResult that polls the transcript list again after the content
ContentResultRelist(d, ok, content, err) ==
  IF ok
  THEN [d EXCEPT !.pc = "listing", !.listCalls = @ + 1, !.log = Append(@, "list")]
  ELSE Fail([d EXCEPT !.remoteError = err], err)

\* ContentResult without the 404 branch of the catch block: every error
\* of the content fetch is thrown as it came
ContentResultRaw404(d, ok, content, err) ==
  IF ok
  THEN [d EXCEPT !.pc = "done", !.parsed = TRUE,
                 !.transcripts = <<>>, !.vttContent = content,
                 !.log = @ \o <<"parse", "normalize">>,
                 !.result = LET fields == TranscriptFields(d.meetingInfo)
                            IN [meetingId |-> d.meetingId,
                                meetingTitle |-> fields.meetingTitle,
                                meetingType |-> fields.meetingType,
                                duration |-> fields.duration,
                                attendees |-> fields.attendees,
                                transcript |-> parseVTT(content)]]
  ELSE Fail([d EXCEPT !.remoteError = err], err)

\* getTranscriptContent / getUserTranscriptContent returns or throws, then
\* parseVTT and the construction of the TranscriptData record
ContentResult(d, ok, content, err) ==
  IF ok
  THEN [d EXCEPT !.pc = "done", !.parsed = TRUE,
                 !.transcripts = <<>>, !.vttContent = content,
                 !.log = @ \o <<"parse", "normalize">>,
                 !.result = LET fields == TranscriptFields(d.meetingInfo)
                            IN [meetingId |-> d.meetingId,
                                meetingTitle |-> fields.meetingTitle,
                                meetingType |-> fields.meetingType,
                                duration |-> fields.duration,
                                attendees |-> fields.attendees,
                                transcript |-> parseVTT(content)]]
  ELSE IF err.statusCode = 404
  THEN Fail([d EXCEPT !.remoteError = err], DomainError("Transcript content not available"))
  ELSE Fail([d EXCEPT !.remoteError = err], err)

\* ContentKind of a getTranscriptContent without the Node.js stream branch
ContentKindNoPush(mode, shape) ==
  CASE shape = "string" -> "string"
    [] shape = "buffer" -> "buffer"
    [] shape = "pull" -> "stream"
    [] shape = "push" -> IF mode = "delegated" THEN "stream" ELSE "other"
    [] shape = "fetchResponse" -> IF mode = "delegated" THEN "stream" ELSE "other"
    [] OTHER -> "other"

\* the branch of the typeof / instanceof chain a response takes:
\* getTranscriptContent knows strings, Buffers, objects with getReader and
\* Node.js streams; getUserTranscriptContent also fetch Responses
ContentKind(mode, shape) ==
  CASE shape = "string" -> "string"
    [] shape = "buffer" -> "buffer"
    [] shape \in {"pull", "push"} -> "stream"
    [] shape = "fetchResponse" -> IF mode = "delegated" THEN "stream" ELSE "other"
    [] OTHER -> "other"

\* String(response) of an object that is none of the known shapes
Stringified(shape) ==
  IF shape = "fetchResponse" THEN <<"[object Response]">> ELSE <<"[object Object]">>

\* Drained that decodes every chunk on its own before joining the texts
DrainedPerChunk(chunks) ==
  IF chunks = <<>> THEN <<>>
  ELSE Concat([k \in 1..Len(chunks) |-> Utf8Decode(chunks[k])])

\* the chunks of a drained stream combined, then decoded
Drained(chunks) == Utf8Decode(Concat(chunks))

\* the content GET resolves to resp: a string or a Buffer gives the text at
\* once, a stream is read first
ContentArrived(d, resp) ==
  LET kind == ContentKind(d.mode, resp.shape)
      got == [d EXCEPT !.shape = resp.shape, !.sent = ResponseText(resp)]
  IN CASE kind = "string" -> ContentResult(got, TRUE, resp.text, NoError)
       [] kind = "buffer" -> ContentResult(got, TRUE, Utf8Decode(resp.chunks[1]), NoError)
       [] kind = "stream" -> [got EXCEPT !.pc = "draining", !.pending = resp.chunks]
       [] OTHER -> ContentResult(got, TRUE, Stringified(resp.shape), NoError)

\* ChunkRead that keeps only the newest chunk
ChunkReadKeepLast(d) ==
  [d EXCEPT !.chunks = <<Head(d.pending)>>, !.pending = Tail(@)]

\* reader.read() resolves with a chunk / the 'data' event: chunks.push
ChunkRead(d) ==
  [d EXCEPT !.chunks = Append(@, Head(d.pending)), !.pending = Tail(@)]

\* reader.read() resolves with done / the 'end' event
StreamEnded(d) == ContentResult(d, TRUE, Drained(d.chunks), NoError)

\* Advance with an inner catch that re-throws: a failed Discovery rejects
\* processNotification
AdvanceRethrow(i, d) ==
  IF task[i].pc = "fetching" /\ d.pc \in {"done", "failed"}
  THEN /\ task' = [task EXCEPT ![i].pc = IF d.pc = "done" THEN "resolved" ELSE "rejected",
                               ![i].outcome = IF d.pc = "done" THEN "fetched" ELSE "fetchFailed",
                               ![i].logged = d.error.message]
       /\ disc' = [disc EXCEPT ![i] = IdleDisc]
       /\ UNCHANGED <<auth, gc, manual, graphClient, meta, env, query, reply, parser, hpc, body, next, res>>
  ELSE /\ disc' = [disc EXCEPT ![i] = d]
       /\ UNCHANGED <<auth, gc, manual, graphClient, meta, env, query, reply, parser, hpc, body, next, res, task>>

\* Advance for an attempt counter that is a variable of the module: every
\* running invocation sees the count of the one that moved last
AdvanceSharedAttempt(i, d) ==
  IF task[i].pc = "fetching" /\ d.pc \in {"done", "failed"}
  THEN /\ task' = [task EXCEPT ![i].pc = "resolved",
                               ![i].outcome = IF d.pc = "done" THEN "fetched" ELSE "fetchFailed",
                               ![i].logged = d.error.message]
       /\ disc' = [disc EXCEPT ![i] = IdleDisc]
       /\ UNCHANGED <<auth, gc, manual, graphClient, meta, env, query, reply, parser, hpc, body, next, res>>
  ELSE /\ disc' = [j \in Slots |->
                     IF j = i THEN d
                     ELSE IF disc[j].pc \in {"listing", "sleeping"}
                          THEN [disc[j] EXCEPT !.attempt = d.attempt]
                          ELSE disc[j]]
       /\ UNCHANGED <<auth, gc, manual, graphClient, meta, env, query, reply, parser, hpc, body, next, res, task>>

\* Invocation i moves to d.  When it ends on the notification path, the
\* awaiting processNotification logs the record or, in its inner catch,
\* error.message, and returns: nothing of the invocation is kept.  Any
\* other caller keeps the outcome.
Advance(i, d) ==
  IF task[i].pc = "fetching" /\ d.pc \in {"done", "failed"}
  THEN /\ task' = [task EXCEPT ![i].pc = "resolved",
                               ![i].outcome = IF d.pc = "done" THEN "fetched" ELSE "fetchFailed",
                               ![i].logged = d.error.message]
       /\ disc' = [disc EXCEPT ![i] = IdleDisc]
       /\ UNCHANGED <<auth, gc, manual, graphClient, meta, env, query, reply, parser, hpc, body, next, res>>
  ELSE /\ disc' = [disc EXCEPT ![i] = d]
       /\ UNCHANGED <<auth, gc, manual, graphClient, meta, env, query, reply, parser, hpc, body, next, res, task>>

\* a caller other than Notification Intake invokes Discovery
AttemptCounts == 0..MaxAttempts
StartFetch ==
  /\ hpc = "idle" /\ \A i \in Slots : task[i].pc = "none" /\ disc[i].pc = "idle"
  /\ \E mode \in {"app", "delegated"}, n \in AttemptCounts :
       /\ disc' = [disc EXCEPT ![1] =
                     StartDiscovery(mode, <<"m1">>, IF mode = "app" THEN <<"u1">> ELSE <<>>,
                                    n, DefaultRetryDelayMs)]
       /\ graphClient' = ClientAfter(mode, graphClient)
  /\ UNCHANGED <<auth, gc, manual, meta, env, query, reply, parser, hpc, body, next, res, task>>

MeetingInfoResponse(i, remote) ==
  /\ hpc # "loop" /\ disc[i].pc = "meetingInfo"
  /\ \/ \E info \in remote.infos :
          Advance(i, Heard(MeetingInfoResult(disc[i], TRUE, info, NoError),
                           InfoAnswer(TRUE, info, NoError)))
     \/ \E err \in remote.errors :
          Advance(i, Heard(MeetingInfoResult(disc[i], FALSE, NoMeetingInfo, err),
                           InfoAnswer(FALSE, NoMeetingInfo, err)))

ListResponse(i, remote) ==
  /\ hpc # "loop" /\ disc[i].pc = "listing"
  /\ \/ \E list \in remote.lists :
          Advance(i, Heard(ListResult(disc[i], TRUE, list, NoError),
                           ListAnswer(TRUE, list, NoError)))
     \/ \E err \in remote.errors :
          Advance(i, Heard(ListResult(disc[i], FALSE, <<>>, err), ListAnswer(FALSE, <<>>, err)))

\* SleepDone for a sleep(retryDelayMs) whose timer never fires
SleepDoneNever(i) ==
  /\ hpc # "loop" /\ disc[i].pc = "sleeping"
  /\ Advance(i, disc[i])

\* sleep(retryDelayMs) is over
SleepDone(i) ==
  /\ hpc # "loop" /\ disc[i].pc = "sleeping"
  /\ Advance(i, Heard(LoopHead(disc[i]), EventAnswer("timer", NoError)))

ContentResponse(i, remote) ==
  /\ hpc # "loop" /\ disc[i].pc = "content"
  /\ \/ \E resp \in remote.contents :
          Advance(i, Heard(ContentArrived(disc[i], resp), ContentAnswer(TRUE, resp, NoError)))
     \/ \E err \in remote.errors :
          Advance(i, Heard(ContentResult(disc[i], FALSE, <<>>, err),
                           ContentAnswer(FALSE, TextResponse(<<>>), err)))

\* the stream of the content response delivers its next chunk
StreamChunk(i) ==
  /\ hpc # "loop" /\ disc[i].pc = "draining" /\ disc[i].pending # <<>>
  /\ Advance(i, Heard(ChunkRead(disc[i]), EventAnswer("chunk", NoError)))

\* the stream ends
StreamEnd(i) ==
  /\ hpc # "loop" /\ disc[i].pc = "draining" /\ disc[i].pending = <<>>
  /\ Advance(i, Heard(StreamEnded(disc[i]), EventAnswer("end", NoError)))

\* the stream fails: read() rejects / the 'error' event
StreamError(i, remote) ==
  /\ hpc # "loop" /\ disc[i].pc = "draining"
  /\ \E err \in remote.errors :
       Advance(i, Heard(ContentResult(disc[i], FALSE, <<>>, err), EventAnswer("error", err)))

(***************************************************************************)
(* Subscription validation: handleWebhookValidation                        *)
(***************************************************************************)
\* req.query.validationToken: absent, empty, or a string
ValidationTokens ==
  { Missing, Str(<<>>), Str(<<"abc123xyz">>),
    Str(<<SP, "Validation", ":", SP, "Testing", SP>>) }

\* the token test without JavaScript truthiness: '' counts as a token
TokenPresentDefined(t) == t.def

\* if (validationToken): undefined and '' are falsy
TokenPresent(t) == t.def /\ t.str # <<>>

\* res.status(400).json({ error: 'Missing validation token' })
MissingTokenReply ==
  [type |-> "application/json", body |-> <<"{\"error\":\"Missing validation token\"}">>]

\* handleWebhookValidation(req, res): synchronous, one response
Validate ==
  /\ hpc = "idle" /\ res = <<>>
  /\ \E t \in ValidationTokens :
       /\ query' = t
       /\ IF TokenPresent(t)
          THEN res' = Append(res, 200) /\ reply' = [type |-> "text/plain", body |-> t.str]
          ELSE res' = Append(res, 400) /\ reply' = MissingTokenReply
  /\ hpc' = "validated"
  /\ UNCHANGED <<auth, gc, manual, graphClient, meta, env, parser, body, next, task, disc>>

(***************************************************************************)
(* Notification Intake: handleWebhookNotification, processNotification     *)
(***************************************************************************)
\* InvalidPayload without the length test
InvalidPayloadNoLength(b) == ~b.present \/ ~b.hasValue

\* !notifications || !notifications.value || notifications.value.length === 0
InvalidPayload(b) == ~b.present \/ ~b.hasValue \/ (b.iterable /\ Len(b.value) = 0)

\* Receive that leaves the acknowledgment to the end of the handler
ReceiveNoAck ==
  /\ hpc = "idle" /\ res = <<>>
  /\ \A i \in Slots : disc[i].pc = "idle"
  /\ \E b \in Bodies(env) :
       /\ body' = b
       /\ IF InvalidPayload(b)
          THEN res' = Append(res, 400) /\ hpc' = "returned" /\ next' = next
          ELSE res' = res /\ hpc' = "loop" /\ next' = 1
  /\ UNCHANGED <<auth, gc, manual, graphClient, meta, env, query, reply, parser, task, disc>>

\* the handler up to its for loop: validation and the response
Receive ==
  /\ hpc = "idle" /\ res = <<>>
  /\ \A i \in Slots : disc[i].pc = "idle"
  /\ \E b \in Bodies(env) :
       /\ body' = b
       /\ IF InvalidPayload(b)
          THEN res' = Append(res, 400) /\ hpc' = "returned" /\ next' = next
          ELSE res' = Append(res, 202) /\ hpc' = "loop" /\ next' = 1
  /\ UNCHANGED <<auth, gc, manual, graphClient, meta, env, query, reply, parser, task, disc>>

\* processNotification(notification) up to its first await or its end
ProcessNotification(n) ==
  LET o == SyncOutcome(n, env)
  IN CASE o = "throw" -> [NoTask EXCEPT !.pc = "rejected", !.outcome = o]
       [] o = "settle" -> [NoTask EXCEPT !.pc = "settling", !.outcome = o,
                                         !.meetingId = ExtractMeetingId(ResourceParts(n.resource.str)),
                                         !.organizerId = ExtractOrganizerId(n.odataId)]
       [] OTHER -> [NoTask EXCEPT !.pc = "resolved", !.outcome = o]

\* Dispatch calling processNotification as a synchronous function: its
\* exception ends the for loop in the handler's catch block
DispatchAbortOnThrow ==
  /\ hpc = "loop" /\ body.iterable /\ next <= Len(body.value)
  /\ task' = [task EXCEPT ![next] = ProcessNotification(body.value[next])]
  /\ IF SyncOutcome(body.value[next], env) = "throw"
     THEN next' = next /\ hpc' = "returned" /\ res' = Append(res, 500)
     ELSE next' = next + 1 /\ hpc' = hpc /\ res' = res
  /\ UNCHANGED <<auth, gc, manual, graphClient, meta, env, query, reply, parser, body, disc>>

\* one iteration of the for loop
Dispatch ==
  /\ hpc = "loop" /\ body.iterable /\ next <= Len(body.value)
  /\ task' = [task EXCEPT ![next] = ProcessNotification(body.value[next])]
  /\ next' = next + 1
  /\ UNCHANGED <<auth, gc, manual, graphClient, meta, env, query, reply, parser, hpc, body, res, disc>>

\* for...of on a 'value' that cannot be iterated throws a TypeError: the
\* catch block calls res.status(500).json(...) on the response already
\* sent, which throws in turn, and the handler's promise rejects
IterationFails ==
  /\ hpc = "loop" /\ ~body.iterable
  /\ res' = Append(res, 500)
  /\ hpc' = "threw"
  /\ UNCHANGED <<auth, gc, manual, graphClient, meta, env, query, reply, parser, body, next, task, disc>>

\* the for loop is over: the handler returns
Return ==
  /\ hpc = "loop" /\ body.iterable /\ next > Len(body.value)
  /\ hpc' = "returned"
  /\ UNCHANGED <<auth, gc, manual, graphClient, meta, env, query, reply, parser, body, next, res, task, disc>>

\* .catch(error => logger.error(...)) of a rejected processNotification
CatchRejection(i) ==
  /\ hpc # "loop" /\ task[i].pc = "rejected"
  /\ task' = [task EXCEPT ![i].pc = "caught"]
  /\ UNCHANGED <<auth, gc, manual, graphClient, meta, env, query, reply, parser, hpc, body, next, res, disc>>

\* SettleDone passing the identifiers in the wrong order
SettleDoneSwapped(i) ==
  /\ hpc # "loop" /\ task[i].pc = "settling"
  /\ task' = [task EXCEPT ![i].pc = "fetching", ![i].waitedMs = SettlingDelayMs]
  /\ disc' = [disc EXCEPT ![i] =
                StartDiscovery("app", task[i].organizerId, task[i].meetingId,
                               DefaultRetryAttempts, DefaultRetryDelayMs)]
  /\ graphClient' = ClientAfter("app", graphClient)
  /\ UNCHANGED <<auth, gc, manual, meta, env, query, reply, parser, hpc, body, next, res>>

\* the settling delay is over: fetchTranscript(meetingId, organizerId)
SettleDone(i) ==
  /\ hpc # "loop" /\ task[i].pc = "settling"
  /\ task' = [task EXCEPT ![i].pc = "fetching", ![i].waitedMs = SettlingDelayMs]
  /\ disc' = [disc EXCEPT ![i] =
                StartDiscovery("app", task[i].meetingId, task[i].organizerId,
                               DefaultRetryAttempts, DefaultRetryDelayMs)]
  /\ graphClient' = ClientAfter("app", graphClient)
  /\ UNCHANGED <<auth, gc, manual, meta, env, query, reply, parser, hpc, body, next, res>>

(***************************************************************************)
(* Manual trigger: handleManualTrigger                                     *)
(***************************************************************************)
\* the parameters of the request body: absent or there
ManualRequests ==
  [session : BOOLEAN, meetingId : {Missing, Str(<<>>), Str(<<"m1">>)},
   joinUrl : {Missing, Str(<<"https://teams.microsoft.com/l/meetup-join/1">>)},
   organizerId : {Missing, Str(<<"u1">>)}]

\* res.status(400).json(...), res.status(500).json(...), res.status(200).json(...)
BadRequest(message) ==
  [status |-> 400, message |-> message, data |-> IdleDisc.result]
ServerError(message) ==
  [status |-> 500, message |-> message, data |-> IdleDisc.result]
Fetched(message, data) ==
  [status |-> 200, message |-> message, data |-> data]

\* error.message of a failed token refresh and of a failed lookup
RefreshFailed == "Token refresh failed: 400"
LookupNotFound == "Meeting not found. Make sure you are the organizer of this meeting."
LookupFailed(err) ==
  IF err.statusCode = 404 THEN "Failed to look up meeting: Not Found"
  ELSE "Failed to look up meeting: Service Unavailable"

\* the handler calls fetchTranscript or fetchUserTranscript and awaits it
ManualFetch(m, mode, meetingId, organizerId) ==
  /\ manual' = [m EXCEPT !.pc = "fetching"]
  /\ disc' = [disc EXCEPT ![1] =
                StartDiscovery(mode, meetingId, organizerId,
                               DefaultRetryAttempts, DefaultRetryDelayMs)]
  /\ graphClient' = ClientAfter(mode, graphClient)

\* the handler sends a response and returns
ManualRespond(m, response) ==
  /\ manual' = [m EXCEPT !.pc = "answered", !.responses = Append(@, response)]
  /\ UNCHANGED <<graphClient, disc>>

\* ManualTrigger that takes application mode whenever the body has an
\* organizerId
ManualTriggerByOrganizer ==
  /\ hpc = "idle" /\ manual.pc = "idle"
  /\ \A i \in Slots : task[i].pc = "none" /\ disc[i].pc = "idle"
  /\ \E r \in ManualRequests :
       LET m == [manual EXCEPT !.session = r.session, !.meetingId = r.meetingId,
                               !.joinUrl = r.joinUrl, !.organizerId = r.organizerId]
       IN IF r.session /\ ~Truthy(r.organizerId)
          THEN IF ~Truthy(r.meetingId) /\ ~Truthy(r.joinUrl)
               THEN ManualRespond(m, BadRequest("Either meetingId or joinUrl is required"))
               ELSE /\ manual' = [m EXCEPT !.pc = "refreshing"]
                    /\ UNCHANGED <<graphClient, disc>>
          ELSE IF ~Truthy(r.meetingId) \/ ~Truthy(r.organizerId)
               THEN ManualRespond(m, BadRequest(
                      "Both meetingId and organizerId are required (app permissions mode)"))
               ELSE ManualFetch(m, "app", r.meetingId.str, r.organizerId.str)
  /\ UNCHANGED <<auth, gc, meta, env, query, reply, parser, hpc, body, next, res, task>>

\* POST /transcript/fetch: the handler runs to its first await
ManualTrigger ==
  /\ hpc = "idle" /\ manual.pc = "idle"
  /\ \A i \in Slots : task[i].pc = "none" /\ disc[i].pc = "idle"
  /\ \E r \in ManualRequests :
       LET m == [manual EXCEPT !.session = r.session, !.meetingId = r.meetingId,
                               !.joinUrl = r.joinUrl, !.organizerId = r.organizerId]
       IN IF r.session
          THEN IF ~Truthy(r.meetingId) /\ ~Truthy(r.joinUrl)
               THEN ManualRespond(m, BadRequest("Either meetingId or joinUrl is required"))
               ELSE /\ manual' = [m EXCEPT !.pc = "refreshing"]
                    /\ UNCHANGED <<graphClient, disc>>
          ELSE IF ~Truthy(r.meetingId) \/ ~Truthy(r.organizerId)
               THEN ManualRespond(m, BadRequest(
                      "Both meetingId and organizerId are required (app permissions mode)"))
               ELSE ManualFetch(m, "app", r.meetingId.str, r.organizerId.str)
  /\ UNCHANGED <<auth, gc, meta, env, query, reply, parser, hpc, body, next, res, task>>

\* TokenReady that resolves the joinUrl whenever there is one
TokenReadyAlwaysLookup ==
  /\ manual.pc = "refreshing"
  /\ \/ \E refreshed \in BOOLEAN :
          LET m == [manual EXCEPT !.refreshes = @ + (IF refreshed THEN 1 ELSE 0)]
          IN IF Truthy(m.joinUrl)
             THEN /\ manual' = [m EXCEPT !.pc = "resolving", !.lookups = @ + 1]
                  /\ UNCHANGED <<graphClient, disc>>
             ELSE ManualFetch(m, "delegated", m.meetingId.str, <<>>)
     \/ ManualRespond([manual EXCEPT !.refreshes = @ + 1], ServerError(RefreshFailed))
  /\ UNCHANGED <<auth, gc, meta, env, query, reply, parser, hpc, body, next, res, task>>

\* getValidAccessToken returns the tokens of the session, returns refreshed
\* tokens, or throws because the refresh failed
TokenReady ==
  /\ manual.pc = "refreshing"
  /\ \/ \E refreshed \in BOOLEAN :
          LET m == [manual EXCEPT !.refreshes = @ + (IF refreshed THEN 1 ELSE 0)]
          IN IF Truthy(m.joinUrl) /\ ~Truthy(m.meetingId)
             THEN /\ manual' = [m EXCEPT !.pc = "resolving", !.lookups = @ + 1]
                  /\ UNCHANGED <<graphClient, disc>>
             ELSE ManualFetch(m, "delegated", m.meetingId.str, <<>>)
     \/ ManualRespond([manual EXCEPT !.refreshes = @ + 1], ServerError(RefreshFailed))
  /\ UNCHANGED <<auth, gc, meta, env, query, reply, parser, hpc, body, next, res, task>>

\* meeting.id of the meeting found by its join URL
FoundMeetingId == <<"m2">>

\* getMeetingByJoinUrl returns the first meeting, finds none, or fails
JoinUrlResolved ==
  /\ manual.pc = "resolving"
  /\ \/ ManualFetch([manual EXCEPT !.lookup = "found"], "delegated", FoundMeetingId, <<>>)
     \/ ManualRespond([manual EXCEPT !.lookup = "none"], ServerError(LookupNotFound))
     \/ \E err \in RemoteErrors :
          ManualRespond([manual EXCEPT !.lookup = "failed"], ServerError(LookupFailed(err)))
  /\ UNCHANGED <<auth, gc, meta, env, query, reply, parser, hpc, body, next, res, task>>

\* ManualAnswer of a handler whose catch block only logs
ManualAnswerSilent ==
  /\ manual.pc = "fetching" /\ disc[1].pc \in {"done", "failed"}
  /\ IF disc[1].pc = "done"
     THEN manual' = [manual EXCEPT
            !.pc = "answered",
            !.responses = Append(@, Fetched("Transcript fetched successfully", disc[1].result))]
     ELSE manual' = [manual EXCEPT !.pc = "answered"]
  /\ UNCHANGED <<auth, gc, graphClient, meta, env, query, reply, parser, hpc, body, next, res, task, disc>>

\* the awaited Discovery invocation has ended: 200 with the record, or the
\* catch block's 500 with error.message
ManualAnswer ==
  /\ manual.pc = "fetching" /\ disc[1].pc \in {"done", "failed"}
  /\ IF disc[1].pc = "done"
     THEN manual' = [manual EXCEPT
            !.pc = "answered",
            !.responses = Append(@, Fetched("Transcript fetched successfully", disc[1].result))]
     ELSE manual' = [manual EXCEPT
            !.pc = "answered",
            !.responses = Append(@, ServerError(disc[1].error.message))]
  /\ UNCHANGED <<auth, gc, graphClient, meta, env, query, reply, parser, hpc, body, next, res, task, disc>>

(***************************************************************************)
(* Specifications                                                          *)
(***************************************************************************)
DiscoveryStep(remote) ==
  \E i \in Slots :
    \/ MeetingInfoResponse(i, remote)
    \/ ListResponse(i, remote)
    \/ SleepDone(i)
    \/ ContentResponse(i, remote)

\* the steps of a content response that arrives as a stream
DrainStep(remote) ==
  \E i \in Slots :
    \/ StreamChunk(i)
    \/ StreamEnd(i)
    \/ StreamError(i, remote)

\* Notification Intake with the Discovery invocations it starts; the remote
\* platform answers the content request with text
Next ==
  \/ Validate
  \/ Receive
  \/ Dispatch
  \/ IterationFails
  \/ Return
  \/ \E i \in Slots : CatchRejection(i)
  \/ \E i \in Slots : SettleDone(i)
  \/ DiscoveryStep(NotificationRemote)

Spec == Init /\ [][Next]_vars

\* Discovery invoked directly, with any attempt count, in either mode
NextDiscovery ==
  \/ StartFetch
  \/ DiscoveryStep(FullRemote)
  \/ DrainStep(FullRemote)

SpecDiscovery == Init /\ [][NextDiscovery]_vars

\* Discovery invoked directly where every remote call returns or fails,
\* every timer fires and every stream delivers or ends; for its progress
\* the answers matter only as empty or not, text or stream, error or not
ProgressRemote ==
  [infos |-> {NoMeetingInfo}, lists |-> {<<>>, <<"t2">>},
   contents |-> {TextResponse(<<"WEBVTT">>)} \cup StreamResponses("pull", <<EAcute>>),
   errors |-> RemoteErrors]

NextProgress ==
  \/ StartFetch
  \/ DiscoveryStep(ProgressRemote)
  \/ DrainStep(ProgressRemote)

SpecProgress == Init /\ [][NextProgress]_vars /\ WF_vars(NextProgress)

(***************************************************************************)
(* The two authorization modes side by side: fetchTranscript in slot 1 and *)
(* fetchUserTranscript in slot 2 are called with the same attempt count    *)
(* and receive the same answers from the remote platform.                 *)
(***************************************************************************)
ModesRemote ==
  [infos |-> MeetingInfos, lists |-> TranscriptLists, contents |-> ShapedResponses,
   errors |-> RemoteErrors]

BothAt(pc) == disc[1].pc = pc /\ disc[2].pc = pc

StartBoth ==
  /\ hpc = "idle" /\ \A i \in Slots : task[i].pc = "none" /\ disc[i].pc = "idle"
  /\ \E n \in AttemptCounts :
       disc' = [disc EXCEPT
                  ![1] = StartDiscovery("app", <<"m1">>, <<"u1">>, n, DefaultRetryDelayMs),
                  ![2] = StartDiscovery("delegated", <<"m1">>, <<>>, n, DefaultRetryDelayMs)]
  /\ graphClient' = ClientAfter("app", graphClient)
  /\ UNCHANGED <<auth, gc, manual, meta, env, query, reply, parser, hpc, body, next, res, task>>

BothMeetingInfo ==
  /\ BothAt("meetingInfo")
  /\ \/ \E info \in ModesRemote.infos :
          disc' = [disc EXCEPT ![1] = MeetingInfoResult(disc[1], TRUE, info, NoError),
                               ![2] = MeetingInfoResult(disc[2], TRUE, info, NoError)]
     \/ \E err \in ModesRemote.errors :
          disc' = [disc EXCEPT ![1] = MeetingInfoResult(disc[1], FALSE, NoMeetingInfo, err),
                               ![2] = MeetingInfoResult(disc[2], FALSE, NoMeetingInfo, err)]
  /\ UNCHANGED <<auth, gc, manual, graphClient, meta, env, query, reply, parser, hpc, body, next, res, task>>

BothList ==
  /\ BothAt("listing")
  /\ \/ \E list \in ModesRemote.lists :
          disc' = [disc EXCEPT ![1] = ListResult(disc[1], TRUE, list, NoError),
                               ![2] = ListResult(disc[2], TRUE, list, NoError)]
     \/ \E err \in ModesRemote.errors :
          disc' = [disc EXCEPT ![1] = ListResult(disc[1], FALSE, <<>>, err),
                               ![2] = ListResult(disc[2], FALSE, <<>>, err)]
  /\ UNCHANGED <<auth, gc, manual, graphClient, meta, env, query, reply, parser, hpc, body, next, res, task>>

BothSleepDone ==
  /\ BothAt("sleeping")
  /\ disc' = [disc EXCEPT ![1] = LoopHead(disc[1]), ![2] = LoopHead(disc[2])]
  /\ UNCHANGED <<auth, gc, manual, graphClient, meta, env, query, reply, parser, hpc, body, next, res, task>>

BothContent ==
  /\ BothAt("content")
  /\ \/ \E resp \in ModesRemote.contents :
          disc' = [disc EXCEPT ![1] = ContentArrived(disc[1], resp),
                               ![2] = ContentArrived(disc[2], resp)]
     \/ \E err \in ModesRemote.errors :
          disc' = [disc EXCEPT ![1] = ContentResult(disc[1], FALSE, <<>>, err),
                               ![2] = ContentResult(disc[2], FALSE, <<>>, err)]
  /\ UNCHANGED <<auth, gc, manual, graphClient, meta, env, query, reply, parser, hpc, body, next, res, task>>

BothStreamChunk ==
  /\ BothAt("draining") /\ disc[1].pending # <<>> /\ disc[2].pending # <<>>
  /\ disc' = [disc EXCEPT ![1] = ChunkRead(disc[1]), ![2] = ChunkRead(disc[2])]
  /\ UNCHANGED <<auth, gc, manual, graphClient, meta, env, query, reply, parser, hpc, body, next, res, task>>

BothStreamEnd ==
  /\ BothAt("draining") /\ disc[1].pending = <<>> /\ disc[2].pending = <<>>
  /\ disc' = [disc EXCEPT ![1] = StreamEnded(disc[1]), ![2] = StreamEnded(disc[2])]
  /\ UNCHANGED <<auth, gc, manual, graphClient, meta, env, query, reply, parser, hpc, body, next, res, task>>

BothStreamError ==
  /\ BothAt("draining")
  /\ \E err \in ModesRemote.errors :
       disc' = [disc EXCEPT ![1] = ContentResult(disc[1], FALSE, <<>>, err),
                            ![2] = ContentResult(disc[2], FALSE, <<>>, err)]
  /\ UNCHANGED <<auth, gc, manual, graphClient, meta, env, query, reply, parser, hpc, body, next, res, task>>

NextModes ==
  \/ StartBoth
  \/ BothMeetingInfo
  \/ BothList
  \/ BothSleepDone
  \/ BothContent
  \/ BothStreamChunk
  \/ BothStreamEnd
  \/ BothStreamError

SpecModes == Init /\ [][NextModes]_vars

(***************************************************************************)
(* A manual-trigger request, with the Discovery invocation it awaits       *)
(***************************************************************************)
\* what the handler answers depends on the invocation ending with a record
\* or an error and not on what the record holds: metadata without
\* properties, one text
ManualRemote ==
  [infos |-> {NoMeetingInfo}, lists |-> {<<>>, <<"t1">>},
   contents |-> {TextResponse(<<"WEBVTT">>)}, errors |-> RemoteErrors]

NextManual ==
  \/ ManualTrigger
  \/ TokenReady
  \/ JoinUrlResolved
  \/ ManualAnswer
  \/ DiscoveryStep(ManualRemote)

SpecManual == Init /\ [][NextManual]_vars /\ WF_vars(NextManual)

(***************************************************************************)
(* Two Discovery invocations for the same meeting, started at any time and *)
(* interleaved in every way                                                *)
(***************************************************************************)
Concurrent == 1..2

ConcurrentRemote ==
  [infos |-> {NominalInfo}, lists |-> {<<>>, <<"t1">>},
   contents |-> {TextResponse(SampleVTT)}, errors |-> RemoteErrors]

\* a caller invokes Discovery while another invocation may be running
Invoke(i) ==
  /\ hpc = "idle" /\ \A j \in Slots : task[j].pc = "none"
  /\ disc[i].pc = "idle"
  /\ \E mode \in {"app", "delegated"} :
       /\ disc' = [disc EXCEPT ![i] =
                     StartDiscovery(mode, <<"m1">>, IF mode = "app" THEN <<"u1">> ELSE <<>>,
                                    DefaultRetryAttempts, DefaultRetryDelayMs)]
       /\ graphClient' = ClientAfter(mode, graphClient)
  /\ UNCHANGED <<auth, gc, manual, meta, env, query, reply, parser, hpc, body, next, res, task>>

NextConcurrent ==
  \/ \E i \in Concurrent : Invoke(i)
  \/ DiscoveryStep(ConcurrentRemote)

SpecConcurrent == Init /\ [][NextConcurrent]_vars

\* what one answer makes of an invocation
Answered(d, a) ==
  CASE a.kind = "info" -> MeetingInfoResult(d, a.ok, a.info, a.err)
    [] a.kind = "list" -> ListResult(d, a.ok, a.list, a.err)
    [] a.kind = "timer" -> LoopHead(d)
    [] a.kind = "content" -> IF a.ok THEN ContentArrived(d, a.resp)
                             ELSE ContentResult(d, FALSE, <<>>, a.err)
    [] a.kind = "chunk" -> ChunkRead(d)
    [] a.kind = "end" -> StreamEnded(d)
    [] OTHER -> ContentResult(d, FALSE, <<>>, a.err)

\* the invocation run alone on the answers, one after the other
RECURSIVE RunAlone(_, _)
RunAlone(d, answers) ==
  IF answers = <<>> THEN d
  ELSE RunAlone(Heard(Answered(d, Head(answers)), Head(answers)), Tail(answers))

(***************************************************************************)
(* parseVTT called on its own, on every caption-track text                 *)
(***************************************************************************)
InitParser ==
  /\ env = Undefined
  /\ hpc = "idle"
  /\ body = NoBody
  /\ next = 0
  /\ res = <<>>
  /\ query = Missing
  /\ reply = NoReply
  /\ parser \in { [IdleParser EXCEPT !.pc = "called", !.blocks = b, !.vttContent = Render(b)] :
                    b \in Documents }
  /\ meta = IdleMeta
  /\ graphClient = "null"
  /\ gc = NoCalls
  /\ auth = NoSession
  /\ manual = IdleManual
  /\ task = [i \in Slots |-> NoTask]
  /\ disc = [i \in Slots |-> IdleDisc]

\* parseVTT(vttContent) returns
Parse ==
  /\ parser.pc = "called"
  /\ parser' = [parser EXCEPT !.pc = "returned", !.entries = parseVTT(parser.vttContent)]
  /\ UNCHANGED <<auth, gc, manual, graphClient, meta, env, hpc, body, next, res, query, reply, task, disc>>

NextParser == Parse

SpecParser == InitParser /\ [][NextParser]_vars

(***************************************************************************)
(* The construction of the TranscriptData fields on its own, on every      *)
(* meeting metadata                                                        *)
(***************************************************************************)
InitMetadata ==
  /\ env = Undefined
  /\ hpc = "idle"
  /\ body = NoBody
  /\ next = 0
  /\ res = <<>>
  /\ query = Missing
  /\ reply = NoReply
  /\ parser = IdleParser
  /\ meta \in { [pc |-> "called", info |-> info, fields |-> NoFields] : info \in MetadataCases }
  /\ graphClient = "null"
  /\ gc = NoCalls
  /\ auth = NoSession
  /\ manual = IdleManual
  /\ task = [i \in Slots |-> NoTask]
  /\ disc = [i \in Slots |-> IdleDisc]

\* the attendees and the fields of transcriptData are computed
BuildFields ==
  /\ meta.pc = "called"
  /\ meta' = [meta EXCEPT !.pc = "built", !.fields = TranscriptFields(meta.info)]
  /\ UNCHANGED <<auth, gc, manual, graphClient, env, hpc, body, next, res, query, reply, parser, task, disc>>

NextMetadata == BuildFields

SpecMetadata == InitMetadata /\ [][NextMetadata]_vars

(***************************************************************************)
(* parseVTT one loop iteration at a time                                   *)
(***************************************************************************)
LoopDocuments == UNION { [1..n -> BlockKinds] : n \in 0..MaxLoopBlocks }

InitParserLoop ==
  /\ env = Undefined
  /\ hpc = "idle"
  /\ body = NoBody
  /\ next = 0
  /\ res = <<>>
  /\ query = Missing
  /\ reply = NoReply
  /\ parser \in { [IdleParser EXCEPT !.pc = "called", !.blocks = b, !.vttContent = Render(b)] :
                    b \in LoopDocuments }
  /\ meta = IdleMeta
  /\ graphClient = "null"
  /\ gc = NoCalls
  /\ auth = NoSession
  /\ manual = IdleManual
  /\ task = [i \in Slots |-> NoTask]
  /\ disc = [i \in Slots |-> IdleDisc]

\* the lines are split, trimmed and filtered, the header line is skipped
ParseEnter ==
  /\ parser.pc = "called"
  /\ LET lines == Lines(parser.vttContent)
     IN parser' = [parser EXCEPT
                     !.pc = "loop", !.lines = lines, !.entries = <<>>,
                     !.i = IF lines # <<>> /\ lines[1] = <<"WEBVTT">> THEN 2 ELSE 1]
  /\ UNCHANGED <<auth, gc, manual, graphClient, meta, env, hpc, body, next, res, query, reply, task, disc>>

\* HasPayload that is always true
HasPayloadAlways(lines, i) == TRUE

\* i + 1 < lines.length (the index of the model is the index of the code
\* plus one)
HasPayload(lines, i) == i + 1 <= Len(lines)

\* ParseIterate that steps over the time-range line only (i++ after the
\* push): the payload line is examined again
ParseIterateRescan ==
  /\ parser.pc = "loop" /\ parser.i <= Len(parser.lines)
  /\ LET lines == parser.lines
         i == parser.i
         line == lines[i]
     IN IF \E k \in 1..Len(line) : line[k] = "-->"
        THEN IF TimestampEnd(line) > 0 /\ HasPayload(lines, i)
             THEN IF i + 1 <= Len(lines)
                  THEN parser' = [parser EXCEPT
                         !.entries = Append(@, Entry(SubSeq(line, 1, TimestampEnd(line)),
                                                     lines[i + 1])),
                         !.cues = Append(@, <<i, i + 1>>),
                         !.i = i + 1]
                  ELSE parser' = [parser EXCEPT
                         !.pc = "failed",
                         !.error = "Failed to parse transcript. The VTT format may be malformed."]
             ELSE parser' = [parser EXCEPT !.i = i + 1]
        ELSE parser' = [parser EXCEPT !.i = i + 1]
  /\ UNCHANGED <<auth, gc, manual, graphClient, meta, env, hpc, body, next, res, query, reply, task, disc>>

\* one iteration of the while loop; reading the speaker pattern on a line
\* that does not exist throws, and the catch block throws the parse error
ParseIterate ==
  /\ parser.pc = "loop" /\ parser.i <= Len(parser.lines)
  /\ LET lines == parser.lines
         i == parser.i
         line == lines[i]
     IN IF \E k \in 1..Len(line) : line[k] = "-->"
        THEN IF TimestampEnd(line) > 0 /\ HasPayload(lines, i)
             THEN IF i + 1 <= Len(lines)
                  THEN parser' = [parser EXCEPT
                         !.entries = Append(@, Entry(SubSeq(line, 1, TimestampEnd(line)),
                                                     lines[i + 1])),
                         !.cues = Append(@, <<i, i + 1>>),
                         !.i = i + 2]
                  ELSE parser' = [parser EXCEPT
                         !.pc = "failed",
                         !.error = "Failed to parse transcript. The VTT format may be malformed."]
             ELSE parser' = [parser EXCEPT !.i = i + 1]
        ELSE parser' = [parser EXCEPT !.i = i + 1]
  /\ UNCHANGED <<auth, gc, manual, graphClient, meta, env, hpc, body, next, res, query, reply, task, disc>>

\* the loop condition fails and the entries are returned
ParseExit ==
  /\ parser.pc = "loop" /\ parser.i > Len(parser.lines)
  /\ parser' = [parser EXCEPT !.pc = "returned"]
  /\ UNCHANGED <<auth, gc, manual, graphClient, meta, env, hpc, body, next, res, query, reply, task, disc>>

NextParserLoop == ParseEnter \/ ParseIterate \/ ParseExit

SpecParserLoop == InitParserLoop /\ [][NextParserLoop]_vars


(***************************************************************************)
(* The application client: getGraphClient                                  *)
(***************************************************************************)
\* NeedsInit without the test of the cached handle
NeedsInitAlways(client) == TRUE

\* if (graphClient) return graphClient: the try block runs when the module
\* variable is null
NeedsInit(client) == client = "null"

\* the functions that call getGraphClient()
GraphClientCallers ==
  {"getMeetingInfo", "listTranscripts", "getTranscriptContent", "testGraphConnection"}

\* one call of getGraphClient(): the cached client is returned, or the
\* client is made, stored and returned, or making it throws
GetGraphClient ==
  /\ Len(gc.returned) < MaxCalls
  /\ \E caller \in GraphClientCallers :
       IF ~NeedsInit(graphClient)
       THEN /\ gc' = [gc EXCEPT !.returned =
                        Append(@, [caller |-> caller, instance |-> gc.handle])]
            /\ UNCHANGED graphClient
       ELSE \/ /\ graphClient' = "client"
               /\ gc' = [gc EXCEPT !.attempts = @ + 1, !.built = @ + 1,
                                   !.handle = gc.built + 1,
                                   !.returned = Append(@, [caller |-> caller,
                                                           instance |-> gc.built + 1])]
            \/ /\ UNCHANGED graphClient
               /\ gc' = [gc EXCEPT !.attempts = @ + 1,
                                   !.returned = Append(@, [caller |-> caller, instance |-> 0])]
  /\ UNCHANGED <<auth, manual, meta, env, hpc, body, next, res, query, reply, parser, task, disc>>

NextClient == GetGraphClient

SpecClient == Init /\ [][NextClient]_vars

(***************************************************************************)
(* The session tokens: login, getValidAccessToken, refreshAccessToken      *)
(***************************************************************************)
\* const bufferTime = 5 * 60 * 1000
BufferTimeMs == 5 * 60 * 1000

\* isTokenExpired with a strict comparison
isTokenExpiredStrict(tokenResponse, now) == now > tokenResponse.expiresAt - BufferTimeMs

\* Date.now() >= (tokenResponse.expiresAt - bufferTime)
isTokenExpired(tokenResponse, now) == now >= tokenResponse.expiresAt - BufferTimeMs

\* the tokens the token endpoint issues: the k-th access and refresh token
AccessToken(k) == <<"access", ToString(k)>>
RefreshToken(k) == <<"refresh", ToString(k)>>

\* expires_in of the token endpoint, in seconds
Lifetimes == {3600}

\* the answers of the token endpoint to a refresh: 200 with a new access
\* token and a new refresh token, an empty one or none; or 400
TokenReplies(k) ==
  { [ok |-> TRUE, status |-> 200, access_token |-> AccessToken(k), refresh_token |-> r,
     expires_in |-> e] : r \in {Missing, Str(<<>>), Str(RefreshToken(k))}, e \in Lifetimes }
  \cup { [ok |-> FALSE, status |-> 400, access_token |-> <<>>, refresh_token |-> Missing,
          expires_in |-> 0] }

\* the profile getUserInfo returns: with mail, with userPrincipalName only;
\* def is FALSE when the call fails
UserInfos ==
  { [def |-> TRUE, id |-> <<"u1">>, mail |-> Str(<<"ana@contoso.com">>),
     userPrincipalName |-> <<"ana@contoso.onmicrosoft.com">>],
    [def |-> TRUE, id |-> <<"u1">>, mail |-> Missing,
     userPrincipalName |-> <<"ana@contoso.onmicrosoft.com">>],
    [def |-> FALSE, id |-> <<>>, mail |-> Missing, userPrincipalName |-> <<>>] }

\* the TokenResponse exchangeCodeForToken returns: the tokens, the time of
\* expiry and, when getUserInfo succeeded, the identity of the user
exchangeCodeForToken(k, expires_in, userInfo, now) ==
  [def |-> TRUE, accessToken |-> AccessToken(k), refreshToken |-> RefreshToken(k),
   expiresAt |-> now + expires_in * 1000,
   userId |-> IF userInfo.def THEN Str(userInfo.id) ELSE Missing,
   userEmail |-> IF userInfo.def
                 THEN Str(OrElse(userInfo.mail, userInfo.userPrincipalName))
                 ELSE Missing]

\* the object refreshAccessToken returns for the answer data: accessToken,
\* refreshToken and expiresAt, and no other property
refreshAccessToken(refreshToken, data, now) ==
  [def |-> TRUE, accessToken |-> data.access_token,
   refreshToken |-> OrElse(data.refresh_token, refreshToken),
   expiresAt |-> now + data.expires_in * 1000,
   userId |-> Missing, userEmail |-> Missing]

\* the routes that call getValidAccessToken on the tokens of the session
\* and store what it returns: GET /auth/status, GET /auth/test,
\* POST /transcript/fetch, GET /meetings
AuthRoutes == {"status", "test", "trigger", "meetings"}

\* GET /auth/callback: the code is exchanged and the tokens are stored in
\* the session
Login ==
  /\ auth.pc = "idle" /\ auth.logins < MaxLogins
  /\ \E e \in Lifetimes, userInfo \in UserInfos :
       LET tokens == exchangeCodeForToken(auth.issued + 1, e, userInfo, auth.now)
       IN auth' = [auth EXCEPT !.tokens = tokens, !.login = tokens, !.logins = @ + 1,
                               !.issued = @ + 1, !.route = "callback",
                               !.given = NoTokens, !.asked = 0, !.posts = 0,
                               !.reply = NoTokenReply, !.result = NoResult]
  /\ UNCHANGED <<gc, graphClient, manual, meta, env, hpc, body, next, res, query, reply,
                 parser, task, disc>>

\* a request to one of the routes with tokens in the session, up to the
\* first await of getValidAccessToken: the tokens are returned and stored
\* back, or the POST to the token endpoint is sent
AuthRequest(route) ==
  /\ auth.pc = "idle" /\ auth.tokens.def
  /\ IF isTokenExpired(auth.tokens, auth.now)
     THEN /\ auth.netCalls < MaxRefreshes
          /\ auth' = [auth EXCEPT !.pc = "refreshing", !.route = route,
                                  !.given = auth.tokens, !.asked = auth.now,
                                  !.posts = 1, !.netCalls = @ + 1,
                                  !.reply = NoTokenReply, !.result = NoResult]
     ELSE auth' = [auth EXCEPT !.route = route, !.given = auth.tokens, !.asked = auth.now,
                               !.posts = 0, !.reply = NoTokenReply,
                               !.result = [kind |-> "same", tokens |-> auth.tokens],
                               !.tokens = auth.tokens]
  /\ UNCHANGED <<gc, graphClient, manual, meta, env, hpc, body, next, res, query, reply,
                 parser, task, disc>>

\* the token endpoint answers: refreshAccessToken returns the new
\* TokenResponse, which the handler stores in the session, or throws
\* 'Token refresh failed'; the catch block of GET /auth/status then
\* destroys the session, the other handlers answer 500
TokenEndpointReply ==
  /\ auth.pc = "refreshing"
  /\ \E data \in TokenReplies(auth.issued + 1) :
       IF data.ok
       THEN LET tokens == refreshAccessToken(auth.given.refreshToken, data, auth.now)
            IN auth' = [auth EXCEPT !.pc = "idle", !.reply = data, !.issued = @ + 1,
                                    !.result = [kind |-> "refreshed", tokens |-> tokens],
                                    !.tokens = tokens]
       ELSE auth' = [auth EXCEPT !.pc = "idle", !.reply = data,
                                 !.result = [kind |-> "threw", tokens |-> NoTokens],
                                 !.tokens = IF auth.route = "status" THEN NoTokens ELSE @,
                                 !.login = IF auth.route = "status" THEN NoTokens ELSE @]
  /\ UNCHANGED <<gc, graphClient, manual, meta, env, hpc, body, next, res, query, reply,
                 parser, task, disc>>

\* the instants around the expiry of the tokens of the session: 1 ms before
\* the 5-minute buffer starts, its start, 1 ms into it, and after the expiry
Instants(tokens) ==
  { tokens.expiresAt - BufferTimeMs - 1, tokens.expiresAt - BufferTimeMs,
    tokens.expiresAt - BufferTimeMs + 1, tokens.expiresAt + 1 }

\* time passes
Tick ==
  /\ auth.tokens.def
  /\ \E t \in Instants(auth.tokens) : t > auth.now /\ auth' = [auth EXCEPT !.now = t]
  /\ UNCHANGED <<gc, graphClient, manual, meta, env, hpc, body, next, res, query, reply,
                 parser, task, disc>>

\* GET /auth/logout: session.destroy
Logout ==
  /\ auth.pc = "idle" /\ auth.tokens.def
  /\ auth' = [auth EXCEPT !.tokens = NoTokens, !.login = NoTokens, !.route = "logout",
                          !.given = NoTokens, !.asked = 0, !.posts = 0,
                          !.reply = NoTokenReply, !.result = NoResult]
  /\ UNCHANGED <<gc, graphClient, manual, meta, env, hpc, body, next, res, query, reply,
                 parser, task, disc>>

NextAuth ==
  \/ Login
  \/ \E route \in AuthRoutes : AuthRequest(route)
  \/ TokenEndpointReply
  \/ Tick
  \/ Logout

SpecAuth == Init /\ [][NextAuth]_vars

(***************************************************************************)
(* Properties                                                              *)
(***************************************************************************)
Terminal(d) == d.pc \in {"done", "failed"}
Dispatched == { i \in Slots : task[i].pc # "none" }

\* C1: once a list call has returned a non-empty list, exactly one more
\* list call than empty results has been made (k calls for k-1 empty
\* results), k is within the attempt count, no further list call follows,
\* and Discovery does not fail as 'not available'; a returned record was
\* obtained that way.
C1_ListCallsUntilFirstNonEmpty ==
  \A i \in Slots :
    /\ disc[i].contentIds # <<>> =>
         /\ disc[i].listCalls = disc[i].emptyLists + 1
         /\ disc[i].listCalls <= disc[i].retryAttempts
         /\ Len(disc[i].contentIds) = 1
         /\ disc[i].pc \in {"content", "draining", "done", "failed"}
         /\ disc[i].error # NotAvailable
    /\ disc[i].pc = "done" => disc[i].contentIds # <<>>

\* C1 witness: empty on attempts 1 and 2, non-empty on attempt 3 of 3,
\* record returned after 3 list calls
C1_Witness ==
  \E i \in Slots :
    /\ disc[i].pc = "done" /\ disc[i].retryAttempts = 3
    /\ disc[i].emptyLists = 2 /\ disc[i].listCalls = 3

\* C2: when every list call came back empty (attempt count N >= 1) a
\* finished Discovery has failed as 'Transcript not available' after
\* exactly N list calls, without fetching content, parsing or building a
\* record.
C2_NotAvailableAfterNCalls ==
  \A i \in Slots :
    ( /\ Terminal(disc[i]) /\ disc[i].retryAttempts >= 1
      /\ disc[i].listCalls >= 1 /\ disc[i].emptyLists = disc[i].listCalls )
    => /\ disc[i].pc = "failed" /\ disc[i].error = NotAvailable
       /\ disc[i].listCalls = disc[i].retryAttempts
       /\ disc[i].contentIds = <<>> /\ ~disc[i].parsed
       /\ disc[i].result = IdleDisc.result

\* C2 witness: three empty lists out of three attempts, 'not available'
C2_Witness ==
  \E i \in Slots :
    /\ disc[i].pc = "failed" /\ disc[i].error = NotAvailable
    /\ disc[i].retryAttempts = 3 /\ disc[i].emptyLists = 3

\* C3: whenever a notification's processing has begun the 202 is the
\* response already sent, and a settling delay ends or a Discovery call is
\* made only after the handler has completed (it awaits no task).
C3_AckBeforeProcessing ==
  \A i \in Dispatched :
    /\ res = <<202>>
    /\ (task[i].waitedMs > 0 \/ disc[i].pc # "idle") => hpc = "returned"

\* C3 witness: the handler has returned with 202 while a task is still in
\* its settling delay
C3_Witness ==
  /\ hpc = "returned" /\ res = <<202>>
  /\ \E i \in Dispatched : task[i].pc = "settling"

\* C4: a request whose body is absent, has no 'value' or has an empty
\* 'value' is answered 400 and no notification is processed.
C4_InvalidPayloadRejected ==
  (/\ hpc \in {"loop", "returned"}
   /\ (~body.present \/ ~body.hasValue \/ (body.iterable /\ body.value = <<>>)))
  => /\ res = <<400>> /\ hpc = "returned"
     /\ \A i \in Slots : task[i] = NoTask /\ disc[i] = IdleDisc

\* C4 witness: a body with an empty 'value' array was answered 400
C4_Witness ==
  /\ hpc = "returned" /\ body.present /\ body.hasValue /\ body.value = <<>>
  /\ res = <<400>>

\* C5: once the handler of an accepted batch has returned, the response is
\* still the single 202, every notification of the batch has its own task,
\* each task ended its synchronous part as its own notification demands,
\* whatever happened to its siblings, and no unfinished task is stuck.
C5_SiblingsIndependent ==
  (hpc = "returned" /\ res # <<400>>)
  => /\ res = <<202>>
     /\ \A i \in DOMAIN body.value :
          /\ task[i].pc # "none"
          /\ LET o == SyncOutcome(body.value[i], env)
             IN \/ task[i].outcome = o
                \/ o = "settle" /\ task[i].outcome \in {"fetched", "fetchFailed"}
          /\ task[i].pc = "fetching"
               => disc[i].pc \in {"meetingInfo", "listing", "sleeping", "content"}

\* C5 witness: the first notification threw, its sibling's transcript was
\* fetched
C5_Witness ==
  /\ hpc = "returned" /\ Len(body.value) = 2
  /\ task[1].pc = "caught" /\ task[2].outcome = "fetched"

\* C6: on the notification path a failed Discovery leaves its task
\* completed normally with the failure logged, the handler returned and the
\* 202 the only response.
C6_FetchFailureCaught ==
  \A i \in Slots :
    /\ disc[i].pc # "failed"
    /\ task[i].outcome = "fetchFailed"
       => /\ task[i].pc = "resolved" /\ task[i].logged # ""
          /\ disc[i] = IdleDisc
          /\ hpc = "returned" /\ res = <<202>>

\* C6 witness: a transport error of the remote platform ended a Discovery
C6_Witness ==
  \E i \in Slots :
    /\ task[i].outcome = "fetchFailed" /\ task[i].logged = "Service Unavailable"
    /\ task[i].pc = "resolved"

\* C7: a settling delay is started, and fetchTranscript called, only for a
\* notification whose changeType is 'updated' or 'deleted'.
C7_OnlyUpdatedOrDeleted ==
  \A i \in Dispatched :
    ( \/ task[i].pc \in {"settling", "fetching"} \/ task[i].waitedMs > 0
      \/ disc[i].pc # "idle" \/ task[i].outcome \in {"fetched", "fetchFailed"} )
    => body.value[i].changeType \in {"updated", "deleted"}

\* C7 witness: a well-formed 'created' notification was ignored
C7_Witness ==
  \E i \in Dispatched :
    /\ body.value[i].changeType = "created" /\ task[i].outcome = "ignored"
    /\ disc[i] = IdleDisc

\* C8: a notification whose clientState differs from the configured one,
\* or is missing, is discarded: no identifier is kept, no settling delay is
\* started, Discovery is not invoked and the response stays the 202.
C8_ClientStateMismatchDiscarded ==
  \A i \in Dispatched :
    body.value[i].clientState # ConfigClientState(env)
    => /\ task[i] = [NoTask EXCEPT !.pc = "resolved", !.outcome = "mismatch"]
       /\ disc[i] = IdleDisc
       /\ res = <<202>>

\* C8 witness: a notification without clientState was discarded
C8_Witness ==
  \E i \in Dispatched :
    /\ body.value[i].clientState = Undefined /\ task[i].outcome = "mismatch"

\* C9 (as claimed): a notification whose meeting identifier or owner
\* identifier cannot be extracted is abandoned, so Discovery is never
\* invoked with an empty meetingId or organizerId.
C9_NoEmptyIdentifiers ==
  \A i \in Dispatched :
    /\ task[i].pc \in {"settling", "fetching"} =>
         task[i].meetingId # <<>> /\ task[i].organizerId # <<>>
    /\ disc[i].pc # "idle" => disc[i].meetingId # <<>> /\ disc[i].organizerId # <<>>

\* C10: Discovery is invoked for a notification only after its settling
\* delay of 30 s is over, in application mode, with the identifiers
\* extracted from the notification and the default retry parameters; during
\* the delay no remote call is made.
C10_SettleThenFetch ==
  \A i \in Dispatched :
    /\ task[i].pc = "settling" => disc[i] = IdleDisc
    /\ task[i].outcome \in {"fetched", "fetchFailed"} => task[i].waitedMs = 30000
    /\ disc[i].pc # "idle" =>
         /\ task[i].pc = "fetching"
         /\ task[i].waitedMs = 30000
         /\ disc[i].mode = "app"
         /\ disc[i].meetingId = ExtractMeetingId(ResourceParts(body.value[i].resource.str))
         /\ disc[i].organizerId = ExtractOrganizerId(body.value[i].odataId)
         /\ disc[i].retryAttempts = 3 /\ disc[i].retryDelayMs = 10000

\* C10 witness: the delay is over and the meeting-metadata fetch is pending
C10_Witness ==
  \E i \in Dispatched :
    /\ disc[i].pc = "meetingInfo" /\ disc[i].metaCalls = 1
    /\ task[i].waitedMs = 30000 /\ disc[i].meetingId = <<"m1">>

\* C11: handleWebhookValidation answers a non-empty validationToken with
\* 200, content type text/plain and the token itself as the whole body; an
\* absent or empty token with 400; it answers once, within the call, and
\* starts no notification processing.
C11_ValidationEcho ==
  hpc = "validated"
  => /\ IF query.def /\ query.str # <<>>
        THEN res = <<200>> /\ reply.type = "text/plain" /\ reply.body = query.str
        ELSE res = <<400>>
     /\ \A i \in Slots : task[i] = NoTask /\ disc[i] = IdleDisc

\* C11 witness: a token with surrounding blanks was echoed as it came
C11_Witness ==
  /\ hpc = "validated" /\ res = <<200>>
  /\ query = Str(<<SP, "Validation", ":", SP, "Testing", SP>>)
  /\ reply.body = <<SP, "Validation", ":", SP, "Testing", SP>>

\* the steps of log may follow one another only in the order of the code
StepOrder ==
  { <<"meta", "list">>, <<"list", "sleep">>, <<"sleep", "list">>, <<"list", "content">>,
    <<"content", "parse">>, <<"parse", "normalize">> }

\* C12: an invocation makes exactly one meeting-metadata fetch, first; then
\* list calls (a retry delay between two of them); then at most one
\* content fetch, directly after a list call that returned a non-empty
\* list; then parsing, then normalization; after the content fetch no
\* remote call is made.
C12_CallOrder ==
  \A i \in Slots :
    LET l == disc[i].log
    IN /\ disc[i].pc # "idle" => l # <<>> /\ l[1] = "meta"
       /\ \A k \in 2..Len(l) : <<l[k - 1], l[k]>> \in StepOrder
       /\ disc[i].metaCalls = Cardinality({ k \in 1..Len(l) : l[k] = "meta" })
       /\ disc[i].listCalls = Cardinality({ k \in 1..Len(l) : l[k] = "list" })
       /\ Len(disc[i].contentIds) = Cardinality({ k \in 1..Len(l) : l[k] = "content" })
       /\ Len(disc[i].contentIds) <= 1
       /\ disc[i].pc \in {"content", "draining"}
            => l[Len(l)] = "content" /\ disc[i].transcripts # <<>>
       /\ disc[i].pc = "done"
            => SubSeq(l, Len(l) - 2, Len(l)) = <<"content", "parse", "normalize">>
       /\ disc[i].parsed <=> disc[i].pc = "done"

\* C12 witness: a record returned after metadata, two list calls with a
\* delay between them, the content fetch, parsing and normalization
C12_Witness ==
  \E i \in Slots :
    /\ disc[i].pc = "done"
    /\ disc[i].log = <<"meta", "list", "sleep", "list", "content", "parse", "normalize">>

\* C13: when the meeting-metadata fetch fails, Discovery fails without a
\* list call or a content fetch: with the domain error 'meeting not found'
\* if the remote error was a 404, with the remote error itself otherwise.
C13_MetadataFailure ==
  \A i \in Slots :
    (disc[i].log = <<"meta">> /\ disc[i].remoteError # NoError)
    => /\ disc[i].pc = "failed"
       /\ disc[i].listCalls = 0 /\ disc[i].contentIds = <<>> /\ ~disc[i].parsed
       /\ IF disc[i].remoteError.statusCode = 404
          THEN disc[i].error = MeetingNotFound(disc[i].mode)
               /\ disc[i].error.statusCode = 0
          ELSE disc[i].error = disc[i].remoteError

\* C13 witness: a 503 of the metadata fetch came out of Discovery as it was
C13_Witness ==
  \E i \in Slots :
    /\ disc[i].pc = "failed" /\ disc[i].log = <<"meta">>
    /\ disc[i].remoteError.statusCode = 503 /\ disc[i].error.statusCode = 503

\* C14: a list call answered 404 counts as an empty list: it uses up one
\* attempt; while attempts remain the retry delay follows (and after it the
\* next list call); when none remains Discovery fails with 'Transcript not
\* available', never with the 404.
C14_List404IsEmpty ==
  \A i \in Slots :
    /\ ( /\ disc[i].remoteError.statusCode = 404
         /\ disc[i].listCalls >= 1 /\ disc[i].contentIds = <<>> )
       => /\ disc[i].attempt = disc[i].listCalls
          /\ disc[i].emptyLists = disc[i].listCalls
          /\ IF disc[i].listCalls < disc[i].retryAttempts
             THEN disc[i].pc = "sleeping" /\ disc[i].log[Len(disc[i].log)] = "sleep"
             ELSE disc[i].pc = "failed" /\ disc[i].error = NotAvailable
    /\ disc[i].pc = "sleeping" => disc[i].attempt < disc[i].retryAttempts

\* C14 witness: three list calls answered 404, the last one ending in 'not
\* available'
C14_Witness ==
  \E i \in Slots :
    /\ disc[i].pc = "failed" /\ disc[i].error = NotAvailable
    /\ disc[i].remoteError = Http404 /\ disc[i].listCalls = 3 /\ disc[i].sleeps = 2

\* C15: every invocation ends, with a record or a failure, when every
\* remote call returns or fails; it makes at most retryAttempts list calls
\* and at most retryAttempts - 1 retry delays (none when retryAttempts is
\* 0); the attempt counter counts the empty results and never exceeds
\* retryAttempts.
C15_Terminates ==
  /\ [](\A i \in Slots :
          /\ disc[i].listCalls <= disc[i].retryAttempts
          /\ disc[i].sleeps <= (IF disc[i].retryAttempts >= 1
                                THEN disc[i].retryAttempts - 1 ELSE 0)
          /\ disc[i].attempt = disc[i].emptyLists
          /\ disc[i].attempt <= disc[i].retryAttempts)
  /\ \A i \in Slots : (disc[i].pc # "idle") ~> Terminal(disc[i])

\* C15 witness: a failure after two list calls and one delay out of two
\* attempts
C15_Witness ==
  \E i \in Slots :
    /\ Terminal(disc[i]) /\ disc[i].retryAttempts = 2
    /\ disc[i].listCalls = 2 /\ disc[i].sleeps = 1 /\ disc[i].attempt = 2

\* C16: the content fetch is made for the first element of the non-empty
\* list, whatever its length, and for no other element.
C16_FirstElement ==
  \A i \in Slots :
    /\ disc[i].pc \in {"content", "draining"}
         => disc[i].contentIds = <<disc[i].transcripts[1]>>
    /\ Len(disc[i].contentIds) <= 1

\* C16 witness: of the list t2, t1 the content of t2 is fetched
C16_Witness ==
  \E i \in Slots :
    /\ disc[i].pc = "content" /\ disc[i].transcripts = <<"t2", "t1">>
    /\ disc[i].contentIds = <<"t2">>

TransportShapes == {"string", "buffer", "pull", "push"}

\* C18: in each of the four transport shapes the text handed to the parser
\* is the whole content the remote platform sent; while a stream is read
\* nothing is parsed and the chunks read and still to come are the content
\* in order; the chunks are joined before they are decoded.
C18_WholeContentParsed ==
  \A i \in Slots :
    /\ disc[i].pc = "draining"
         => /\ ~disc[i].parsed /\ disc[i].vttContent = <<>>
            /\ Utf8Decode(Concat(disc[i].chunks \o disc[i].pending)) = disc[i].sent
    /\ (disc[i].pc = "done" /\ disc[i].shape \in TransportShapes)
         => /\ disc[i].vttContent = disc[i].sent
            /\ disc[i].pending = <<>>
            /\ disc[i].result.transcript = parseVTT(disc[i].sent)

\* C18 witness: a push stream cut inside a two-byte character was parsed as
\* the text it carries
C18_Witness ==
  \E i \in Slots :
    /\ disc[i].pc = "done" /\ disc[i].shape = "push" /\ Len(disc[i].chunks) = 2
    /\ disc[i].chunks[1][Len(disc[i].chunks[1])] = "C3"
    /\ disc[i].vttContent = AccentVTT

\* the cue blocks of a text, in source order
CueBlocks(blocks) == SelectSeq(blocks, LAMBDA b : b \in CueKinds)

\* a text of cues of the given kinds, blank lines and, first, the header
MadeOf(blocks, kinds) ==
  \A k \in 1..Len(blocks) :
    blocks[k] \in kinds \cup {"blank"} \/ (k = 1 /\ blocks[k] = "header")

\* C19: for a text of N well-formed tagged cues, with or without the
\* WEBVTT header and blank lines, parseVTT returns N entries in source
\* order, the i-th with the start timestamp of the i-th cue as written, its
\* tagged speaker (not the fallback) and its text trimmed.
C19_TaggedCuesParsed ==
  (parser.pc = "returned" /\ MadeOf(parser.blocks, TaggedKinds))
  => LET cs == CueBlocks(parser.blocks)
     IN /\ Len(parser.entries) = Len(cs)
        /\ \A k \in 1..Len(cs) :
             /\ parser.entries[k] = [timestamp |-> <<Cues[cs[k]].start>>,
                                      speaker |-> Cues[cs[k]].speaker,
                                      text |-> Trim(Cues[cs[k]].text)]
             /\ parser.entries[k].speaker # <<"Unknown">>

\* C19 witness: header, a cue, a blank line and a second cue, indented, with
\* a line of blanks inside and blanks around its text; two entries
C19_Witness ==
  /\ parser.pc = "returned" /\ parser.blocks = <<"header", "cueA", "blank", "cueB">>
  /\ Len(parser.entries) = 2 /\ parser.entries[2].text = <<"Hola">>

\* C20 (as claimed): a cue whose payload line has no speaker tag gives one
\* entry with speaker 'Unknown' and the payload line with its leading and
\* trailing whitespace as text.
C20_FallbackKeepsWhitespace ==
  (parser.pc = "returned" /\ MadeOf(parser.blocks, CueKinds))
  => LET cs == CueBlocks(parser.blocks)
     IN /\ Len(parser.entries) = Len(cs)
        /\ \A k \in 1..Len(cs) :
             cs[k] \notin TaggedKinds
             => parser.entries[k] = [timestamp |-> <<Cues[cs[k]].start>>,
                                     speaker |-> <<"Unknown">>,
                                     text |-> Cues[cs[k]].text]

\* C20 (amended): a cue whose payload line has no speaker tag gives one
\* entry with speaker 'Unknown' and the payload line, trimmed like every
\* line when the text was split, as text.
C20_FallbackTrimmed ==
  (parser.pc = "returned" /\ MadeOf(parser.blocks, CueKinds))
  => LET cs == CueBlocks(parser.blocks)
     IN /\ Len(parser.entries) = Len(cs)
        /\ \A k \in 1..Len(cs) :
             cs[k] \notin TaggedKinds
             => parser.entries[k] = [timestamp |-> <<Cues[cs[k]].start>>,
                                     speaker |-> <<"Unknown">>,
                                     text |-> Trim(Cues[cs[k]].text)]

\* C20 witness: the payload ' Good morning ' came back as 'Good morning'
C20_Witness ==
  /\ parser.pc = "returned" /\ parser.blocks = <<"untagged">>
  /\ parser.entries = <<[timestamp |-> <<"00:00:05.000">>, speaker |-> <<"Unknown">>,
                          text |-> <<"Good", SP, "morning">>]>>

\* C21 (as claimed): writing the entries parseVTT returned back as raw cues
\* and parsing the result yields the same entries, also for an entry with
\* an empty speaker.
C21_ReparseIdentity ==
  parser.pc = "returned" => parseVTT(Reserialize(parser.entries)) = parser.entries

\* C22: parseVTT raises no error on any text; in its single pass the line
\* index strictly increases from one iteration to the next and never passes
\* the end of the lines by more than one, and the entries it returns are the
\* entries of the text.
C22_NeverFails ==
  /\ [](/\ parser.pc # "failed"
        /\ parser.pc = "loop" => parser.i <= Len(parser.lines) + 1
        /\ parser.pc = "returned" => parser.entries = parseVTT(parser.vttContent))
  /\ [][parser.pc = "loop" /\ parser'.pc = "loop" => parser'.i > parser.i]_vars

\* C22 witness: a text that ends with a time-range line, which has no
\* payload line after it, and has a malformed time-range line was parsed
C22_Witness ==
  /\ parser.pc = "returned" /\ parser.blocks = <<"badTime", "cueA", "time">>
  /\ Len(parser.entries) = 1 /\ parser.i = Len(parser.lines) + 1

\* C23: the classification is case-insensitive and first match wins: a
\* title with 'daily' or 'standup' in any case is daily; else one with
\* 'tech' and 'refinement' is tech-refinement; else one with 'product' and
\* 'refinement' is product-refinement; else other.  A title with 'daily',
\* 'tech' and 'refinement' is daily, one with 'tech', 'product' and
\* 'refinement' is tech-refinement.
C23_Classification ==
  (meta.pc = "built" /\ meta.info.subject.def)
  => LET title == meta.info.subject.str
         has(spellings) == \E k \in 1..Len(title) : title[k] \in spellings
         daily == has({"Daily"}) \/ has({"STANDUP", "Standup"})
         tech == has({"Tech"})
         product == has({"PRODUCT"})
         refinement == has({"Refinement"})
         type == meta.fields.meetingType
     IN /\ daily => type = "daily"
        /\ (~daily /\ tech /\ refinement) => type = "tech-refinement"
        /\ (~daily /\ ~(tech /\ refinement) /\ product /\ refinement)
             => type = "product-refinement"
        /\ (~daily /\ ~(tech /\ refinement) /\ ~(product /\ refinement)) => type = "other"
        /\ (has({"Daily"}) /\ tech /\ refinement) => type = "daily"
        /\ (tech /\ product /\ refinement /\ ~daily) => type = "tech-refinement"

\* C23 witness: 'TechPRODUCTRefinement' was classified tech-refinement
C23_Witness ==
  /\ meta.pc = "built" /\ meta.info.subject = Str(<<"Tech", "PRODUCT", "Refinement">>)
  /\ meta.fields.meetingType = "tech-refinement"

\* C24 (as claimed): in every record Discovery returns the duration is a
\* non-negative whole number of minutes, also when the end lies before the
\* start or a timestamp is missing.
C24_DurationNonNegative ==
  \A i \in Slots :
    disc[i].pc = "done"
    => ~disc[i].result.duration.nan /\ disc[i].result.duration.val >= 0

\* C25: for a meeting with a start and an end timestamp the duration is
\* (end - start) in milliseconds over 60000, rounded to the nearest integer:
\* 09:00:00Z to 09:15:00Z of the same day gives 15, a difference of
\* 29 999 ms gives 0 and one of 30 000 ms gives 1.
C25_DurationRounded ==
  (/\ meta.pc = "built"
   /\ meta.info.startDateTime.def /\ meta.info.startDateTime.str \in Timestamps
   /\ meta.info.endDateTime.def /\ meta.info.endDateTime.str \in Timestamps)
  => LET diff == GetTime(meta.info.endDateTime.str).val
                 - GetTime(meta.info.startDateTime.str).val
         minutes == meta.fields.duration
     IN /\ ~minutes.nan
        /\ 60000 * minutes.val - diff <= 30000
        /\ diff - 60000 * minutes.val <= 30000
        /\ diff = 900000 => minutes.val = 15
        /\ diff = 29999 => minutes.val = 0
        /\ diff = 30000 => minutes.val = 1

\* C25 witness: a meeting of 30 000 ms has the duration 1
C25_Witness ==
  /\ meta.pc = "built"
  /\ meta.info.startDateTime = Str(Timestamp("2024-01-15", "09:00:00"))
  /\ meta.info.endDateTime = Str(Timestamp("2024-01-15", "09:00:30"))
  /\ meta.fields.duration = Num(1)

C28_NoInterference ==
  /\ graphClient = IF \E i \in Slots : disc[i].mode = "app" THEN "client" ELSE "null"
  /\ \A i \in Slots :
       disc[i].pc # "idle"
       => disc[i] = RunAlone(StartDiscovery(disc[i].mode, disc[i].meetingId,
                                            disc[i].organizerId, disc[i].retryAttempts,
                                            disc[i].retryDelayMs),
                             disc[i].answers)

\* C28 witness: of two application-mode invocations for the same meeting
\* one returned a record after an empty list and the other failed after
\* its third list call
C28_Witness ==
  /\ disc[1].mode = "app" /\ disc[2].mode = "app" /\ disc[1].meetingId = disc[2].meetingId
  /\ disc[1].pc = "done" /\ disc[1].listCalls = 2
  /\ disc[2].pc = "failed" /\ disc[2].listCalls = 3 /\ disc[2].error = NotAvailable

\* C29: on the manual-trigger path a Discovery invocation that fails is
\* answered with one error response carrying the message of its error, one
\* that succeeds with one 200 carrying its record; no request gets a second
\* response and every request is answered in the end.
C29_ManualAnswered ==
  /\ [](/\ manual.pc = "answered" => Len(manual.responses) = 1
        /\ manual.pc # "answered" => manual.responses = <<>>
        /\ (manual.pc = "answered" /\ disc[1].pc = "failed")
           => /\ manual.responses[1].status >= 400
              /\ manual.responses[1].message = disc[1].error.message
        /\ (manual.pc = "answered" /\ disc[1].pc = "done")
           => /\ manual.responses[1].status = 200
              /\ manual.responses[1].data = disc[1].result)
  /\ (manual.pc # "idle") ~> (manual.pc = "answered")

\* C29 witness: the request of a signed-in user whose join URL was looked
\* up was answered 500 with 'Transcript not available' after the third
\* list call
C29_Witness ==
  /\ manual.pc = "answered" /\ manual.session /\ manual.lookups = 1
  /\ disc[1].pc = "failed" /\ disc[1].listCalls = 3
  /\ manual.responses = <<ServerError(NotAvailable.message)>>

\* C30 (as claimed): for every request body the handler sends, or tries to
\* send, exactly one response; after the 202 the 500 of the catch block is
\* not attempted, also when 'value' is truthy and no array.
C30_SingleResponse ==
  hpc \in {"loop", "returned", "threw"} => Len(res) = 1

\* the newest answer on the record of an invocation
LastAnswer(d) == d.answers[Len(d.answers)]

\* invocation i has just been told something
ToldNow(i) == Len(disc'[i].answers) = Len(disc[i].answers) + 1

\* C31: when a list call fails with an error other than 404, Discovery ends
\* in that very step with the same error: the counts of list calls, retry
\* delays and content fetches stay as they were, whatever attempts remain.
C31_ListFailureEndsDiscovery ==
  [][\A i \in Slots :
       ( /\ disc[i].pc = "listing" /\ ToldNow(i)
         /\ LastAnswer(disc'[i]).kind = "list" /\ ~LastAnswer(disc'[i]).ok
         /\ LastAnswer(disc'[i]).err.statusCode # 404 )
       => /\ disc'[i].pc = "failed"
          /\ disc'[i].error = LastAnswer(disc'[i]).err
          /\ disc'[i].listCalls = disc[i].listCalls
          /\ disc'[i].sleeps = disc[i].sleeps
          /\ disc'[i].contentIds = <<>> /\ ~disc'[i].parsed
          /\ disc'[i].log = disc[i].log]_vars

\* C31 witness: the first of three list calls failed with 503 and Discovery
\* has ended with that error after one list call and no delay
C31_Witness ==
  \E i \in Slots :
    /\ disc[i].pc = "failed" /\ disc[i].error.statusCode = 503
    /\ disc[i].retryAttempts = 3 /\ disc[i].attempt = 0
    /\ disc[i].listCalls = 1 /\ disc[i].sleeps = 0
    /\ LastAnswer(disc[i]).kind = "list"

\* C32: a retry delay is waited only between two list calls: every delay
\* on the log follows a list call and, once over, is followed by a list
\* call; while a delay runs there are as many delays as list calls, at any
\* other time m list calls (m >= 1) go with m - 1 delays and no list call
\* goes with no delay; 'not available' follows a list call, not a delay.
C32_DelayOnlyBetweenListCalls ==
  \A i \in Slots :
    LET d == disc[i]
    IN /\ \A k \in 1..Len(d.log) :
            d.log[k] = "sleep" =>
              /\ k > 1 /\ d.log[k - 1] = "list"
              /\ k < Len(d.log) => d.log[k + 1] = "list"
              /\ k = Len(d.log) => d.pc = "sleeping"
       /\ d.pc = "sleeping" => d.sleeps = d.listCalls
       /\ (d.pc # "sleeping" /\ d.listCalls >= 1) => d.sleeps = d.listCalls - 1
       /\ d.listCalls = 0 => d.sleeps = 0
       /\ (d.pc = "failed" /\ d.error = NotAvailable /\ d.listCalls >= 1) =>
            d.log[Len(d.log)] = "list"

\* C32 witness: 'not available' after three list calls and two delays
C32_Witness ==
  \E i \in Slots :
    /\ disc[i].pc = "failed" /\ disc[i].error = NotAvailable
    /\ disc[i].listCalls = 3 /\ disc[i].sleeps = 2
    /\ disc[i].log = <<"meta", "list", "sleep", "list", "sleep", "list">>

\* C33: with an attempt count of 0 or less an invocation that got its
\* metadata has made one metadata call, no list call and no delay, and has
\* failed as 'Transcript not available'; the same holds of the loop for the
\* negative counts, whatever the metadata.
C33_NoAttemptsNoListCall ==
  /\ \A i \in Slots :
       (disc[i].pc # "idle" /\ disc[i].retryAttempts <= 0) =>
         /\ disc[i].metaCalls = 1 /\ disc[i].listCalls = 0 /\ disc[i].sleeps = 0
         /\ disc[i].contentIds = <<>> /\ ~disc[i].parsed
         /\ disc[i].pc \in {"meetingInfo", "failed"}
         /\ (disc[i].pc = "failed" /\ disc[i].remoteError = NoError) =>
              disc[i].error = NotAvailable
  /\ \A mode \in {"app", "delegated"}, n \in {-2, -1, 0}, info \in MeetingInfos :
       LET d == MeetingInfoResult(StartDiscovery(mode, <<"m1">>, <<"u1">>, n, DefaultRetryDelayMs),
                                  TRUE, info, NoError)
       IN /\ d.pc = "failed" /\ d.error = NotAvailable
          /\ d.metaCalls = 1 /\ d.listCalls = 0 /\ d.sleeps = 0

\* C33 witness: attempt count 0, the metadata arrived, 'not available'
\* without a list call
C33_Witness ==
  \E i \in Slots :
    /\ disc[i].pc = "failed" /\ disc[i].error = NotAvailable
    /\ disc[i].retryAttempts = 0 /\ disc[i].metaCalls = 1 /\ disc[i].listCalls = 0
    /\ LastAnswer(disc[i]).kind = "info" /\ LastAnswer(disc[i]).ok

\* C34: when the content fetch fails (the GET rejects, or the stream of the
\* response fails while it is read), Discovery ends in that step: with
\* 'Transcript content not available' for a 404, with the error as it came
\* otherwise; the parser has not run and no record is returned.
C34_ContentFailure ==
  [][\A i \in Slots :
       ( /\ disc[i].pc \in {"content", "draining"} /\ ToldNow(i)
         /\ \/ LastAnswer(disc'[i]).kind = "content" /\ ~LastAnswer(disc'[i]).ok
            \/ LastAnswer(disc'[i]).kind = "error" )
       => /\ disc'[i].pc = "failed"
          /\ disc'[i].error =
               IF LastAnswer(disc'[i]).err.statusCode = 404
               THEN DomainError("Transcript content not available")
               ELSE LastAnswer(disc'[i]).err
          /\ ~disc'[i].parsed
          /\ disc'[i].result = IdleDisc.result
          /\ disc'[i].log = disc[i].log]_vars

\* C34 witness: a push stream failed with 503 after a chunk had arrived
C34_Witness ==
  \E i \in Slots :
    /\ disc[i].pc = "failed" /\ disc[i].error.statusCode = 503
    /\ disc[i].shape = "push" /\ Len(disc[i].answers) >= 2
    /\ LastAnswer(disc[i]).kind = "error"
    /\ disc[i].answers[Len(disc[i].answers) - 1].kind = "chunk"

\* C34 witness: the content GET answered 404
C34_Witness404 ==
  \E i \in Slots :
    /\ disc[i].pc = "failed"
    /\ disc[i].error = DomainError("Transcript content not available")
    /\ LastAnswer(disc[i]).kind = "content" /\ ~LastAnswer(disc[i]).ok

\* C35: in the loop of parseVTT every entry is made of a matching
\* time-range line and the non-blank line right after it, whatever that
\* line is, and the loop goes on after both: the line pairs of the entries
\* do not overlap, so a line belongs to at most one entry; a matching
\* time-range line the loop has passed that is not the payload of the cue
\* before it and is not the last line has an entry; the last line starts no
\* entry; a payload that is itself a time-range line is the text of its
\* entry (speaker 'Unknown') and starts no entry of its own.
C35_PayloadIsNextLine ==
  parser.pc \in {"loop", "returned"} =>
    LET lines == parser.lines
        cues == parser.cues
        entries == parser.entries
        first == IF lines # <<>> /\ lines[1] = <<"WEBVTT">> THEN 2 ELSE 1
        payloads == { cues[k][2] : k \in 1..Len(cues) }
        starts == { cues[k][1] : k \in 1..Len(cues) }
    IN /\ lines = SelectSeq(LinesUnfiltered(parser.vttContent), LAMBDA l : l # <<>>)
       /\ Len(cues) = Len(entries)
       /\ \A k \in 1..Len(cues) :
            /\ cues[k][1] >= first /\ cues[k][2] = cues[k][1] + 1
            /\ cues[k][2] <= Len(lines) /\ cues[k][2] < parser.i
            /\ TimestampEnd(lines[cues[k][1]]) > 0
            /\ entries[k] = Entry(SubSeq(lines[cues[k][1]], 1, TimestampEnd(lines[cues[k][1]])),
                                  lines[cues[k][2]])
            /\ k < Len(cues) => cues[k][2] < cues[k + 1][1]
            /\ TimestampEnd(lines[cues[k][2]]) > 0 =>
                 /\ entries[k].speaker = <<"Unknown">>
                 /\ entries[k].text = lines[cues[k][2]]
                 /\ cues[k][2] \notin starts
       /\ \A j \in first..(parser.i - 1) :
            (j < Len(lines) /\ TimestampEnd(lines[j]) > 0 /\ j \notin payloads) => j \in starts
       /\ Len(lines) \notin starts

\* C35 witness: three time-range lines in a row, the second one behind a
\* blank line: one entry, whose text is the second line; the third line,
\* the last of the text, yields none
C35_Witness ==
  /\ parser.pc = "returned" /\ parser.blocks = <<"time", "blank", "time">>
  /\ parser.entries =
       << [timestamp |-> <<"00:00:10.500">>, speaker |-> <<"Unknown">>,
           text |-> TimeRange("00:00:10.500", "00:00:10.000")] >>
  /\ parser.cues = << <<1, 2>> >>

\* C35 witness: a time-range line as the last non-blank line, after a cue
C35_WitnessLast ==
  /\ parser.pc = "returned" /\ parser.blocks = <<"cueB", "time", "blank">>
  /\ Len(parser.entries) = 1 /\ Len(parser.lines) = 3

\* the request of the manual trigger lacks the parameters its mode requires
MissingParameters ==
  IF manual.session
  THEN ~Truthy(manual.meetingId) /\ ~Truthy(manual.joinUrl)
  ELSE ~Truthy(manual.meetingId) \/ ~Truthy(manual.organizerId)

\* C36: the manual trigger takes its mode from the session alone: with
\* session tokens Discovery runs in delegated mode, whatever the body holds,
\* and the application client is not made; without them it runs in
\* application mode with the meetingId and organizerId of the body, and no
\* token is asked for and no lookup made; a request that lacks the required
\* parameters is answered 400, once, with no Discovery call, no token
\* refresh and no lookup.
C36_ModeFromSession ==
  manual.pc # "idle" =>
    /\ manual.session => (disc[1].mode \in {"", "delegated"} /\ graphClient = "null")
    /\ ~manual.session =>
         /\ disc[1].mode \in {"", "app"}
         /\ manual.refreshes = 0 /\ manual.lookups = 0
         /\ manual.pc \notin {"refreshing", "resolving"}
    /\ disc[1].mode = "app" =>
         /\ Truthy(manual.meetingId) /\ Truthy(manual.organizerId)
         /\ disc[1].meetingId = manual.meetingId.str
         /\ disc[1].organizerId = manual.organizerId.str
    /\ ~MissingParameters => (manual.pc = "answered" => manual.responses[1].status # 400)
    /\ MissingParameters =>
         /\ manual.pc = "answered" /\ Len(manual.responses) = 1
         /\ manual.responses[1].status = 400
         /\ disc[1] = IdleDisc /\ graphClient = "null"
         /\ manual.refreshes = 0 /\ manual.lookups = 0

\* C36 witness: a request with session tokens whose body holds meetingId and
\* organizerId was served in delegated mode
C36_Witness ==
  /\ manual.pc = "answered" /\ manual.session
  /\ Truthy(manual.meetingId) /\ Truthy(manual.organizerId)
  /\ disc[1].mode = "delegated" /\ disc[1].pc = "done"
  /\ manual.responses[1].status = 200

\* C36 witness: without session tokens and without organizerId, 400
C36_Witness400 ==
  /\ manual.pc = "answered" /\ ~manual.session
  /\ Truthy(manual.meetingId) /\ Truthy(manual.joinUrl) /\ ~Truthy(manual.organizerId)
  /\ manual.responses = <<BadRequest(
       "Both meetingId and organizerId are required (app permissions mode)")>>

\* C37: in delegated mode the join URL is looked up, once, only when the
\* body has a joinUrl and no meetingId; Discovery then gets the id of the
\* meeting found.  With a meetingId in the body no lookup is made and
\* Discovery gets that id.  A lookup that finds no meeting is answered with
\* the 'Meeting not found' error, and Discovery is not called.
C37_JoinUrlLookup ==
  /\ manual.lookups <= 1
  /\ (manual.lookups = 1) <=>
       ( /\ manual.session /\ Truthy(manual.joinUrl) /\ ~Truthy(manual.meetingId)
         /\ manual.pc \in {"resolving", "fetching", "answered"}
         /\ manual.pc = "answered" =>
              manual.responses # <<ServerError(RefreshFailed)>> )
  /\ (manual.session /\ Truthy(manual.meetingId)) =>
       /\ manual.lookup = ""
       /\ disc[1].pc # "idle" => disc[1].meetingId = manual.meetingId.str
  /\ manual.lookup = "found" =>
       (disc[1].pc # "idle" /\ disc[1].meetingId = FoundMeetingId)
  /\ manual.lookup = "none" =>
       /\ manual.pc = "answered"
       /\ manual.responses = <<ServerError(LookupNotFound)>>
       /\ disc[1] = IdleDisc

\* C37 witness: meetingId and joinUrl both in the body, the transcript of
\* the meetingId fetched without a lookup
C37_Witness ==
  /\ manual.pc = "answered" /\ manual.session
  /\ manual.meetingId = Str(<<"m1">>) /\ Truthy(manual.joinUrl)
  /\ manual.lookups = 0 /\ disc[1].pc = "done" /\ disc[1].meetingId = <<"m1">>

\* C37 witness: the lookup found no meeting
C37_WitnessNone ==
  /\ manual.lookup = "none" /\ manual.lookups = 1
  /\ manual.meetingId = Str(<<>>)
  /\ manual.responses = <<ServerError(LookupNotFound)>>

\* C38: whatever authenticated requests were served, the tokens of the
\* session carry the user identity obtained at login: userId and userEmail
\* are those of the TokenResponse stored at login.
C38_IdentityKept ==
  auth.tokens.def =>
    /\ auth.tokens.userId = auth.login.userId
    /\ auth.tokens.userEmail = auth.login.userEmail

\* C39: getValidAccessToken returns its argument, without a POST to the
\* token endpoint, exactly when the time of the call is more than 5 minutes
\* (300000 ms) before expiresAt; otherwise it sends exactly one POST, and
\* then returns tokens with the new access token and with the old refresh
\* token whenever the answer has no refresh token (or an empty one), the
\* new refresh token otherwise; when the refresh fails it raises an error
\* and returns no tokens.
C39_ValidAccessToken ==
  LET early == auth.asked < auth.given.expiresAt - 300000
      called == auth.given.def
  IN /\ called => (auth.posts = IF early THEN 0 ELSE 1)
     /\ (called /\ early) =>
          (auth.pc = "idle" /\ auth.result = [kind |-> "same", tokens |-> auth.given])
     /\ (called /\ ~early) =>
          /\ auth.pc = "refreshing" <=> auth.result.kind = ""
          /\ auth.result.kind \in {"", "refreshed", "threw"}
     /\ auth.result.kind = "same" => (called /\ early)
     /\ auth.result.kind = "refreshed" =>
          /\ auth.reply.ok
          /\ auth.result.tokens.def
          /\ auth.result.tokens.accessToken = auth.reply.access_token
          /\ auth.result.tokens.refreshToken =
               IF auth.reply.refresh_token.def /\ auth.reply.refresh_token.str # <<>>
               THEN auth.reply.refresh_token.str
               ELSE auth.given.refreshToken
     /\ auth.result.kind = "threw" => (~auth.reply.ok /\ ~auth.result.tokens.def)
     /\ (auth.pc = "idle" /\ called /\ ~early /\ ~auth.reply.ok) => auth.result.kind = "threw"

\* C39 witness: called exactly 5 minutes before the expiry, the tokens were
\* refreshed with one POST, and the answer without a refresh token left the
\* old refresh token in place
C39_Witness ==
  /\ auth.result.kind = "refreshed" /\ auth.posts = 1
  /\ auth.asked = auth.given.expiresAt - 300000
  /\ ~auth.reply.refresh_token.def
  /\ auth.result.tokens.refreshToken = auth.given.refreshToken
  /\ auth.result.tokens.accessToken # auth.given.accessToken

\* C39 witness: called 1 ms earlier, the tokens came back as they were
C39_WitnessEarly ==
  /\ auth.result.kind = "same" /\ auth.posts = 0
  /\ auth.asked = auth.given.expiresAt - 300001

\* C39 witness: the refresh failed
C39_WitnessFailed ==
  /\ auth.result.kind = "threw" /\ auth.posts = 1 /\ auth.reply.status = 400

\* the number of the first call of getGraphClient that returned a client,
\* 0 if none did
FirstClient ==
  IF \E k \in 1..Len(gc.returned) : gc.returned[k].instance # 0
  THEN CHOOSE k \in 1..Len(gc.returned) :
         /\ gc.returned[k].instance # 0
         /\ \A j \in 1..(k - 1) : gc.returned[j].instance = 0
  ELSE 0

\* C40: over any sequence of getGraphClient calls the client is made at
\* most once; from the first call that returned a client on, every call
\* returns that same instance and makes nothing; every call before it
\* failed, left the handle empty, and was followed by a call that tried
\* again: the attempts are the failed calls plus the one that succeeded.
C40_ClientMadeOnce ==
  /\ gc.built <= 1
  /\ (graphClient = "null") <=> (gc.built = 0)
  /\ (gc.built = 0) <=> (FirstClient = 0)
  /\ \A k \in 1..Len(gc.returned) :
       /\ (FirstClient # 0 /\ k >= FirstClient) => gc.returned[k].instance = 1
       /\ (FirstClient = 0 \/ k < FirstClient) => gc.returned[k].instance = 0
  /\ gc.attempts = (IF FirstClient = 0 THEN Len(gc.returned) ELSE FirstClient)
  /\ gc.handle = gc.built

\* C40 witness: the first call failed, the second made the client, the
\* third got the same client
C40_Witness ==
  /\ Len(gc.returned) = 3
  /\ gc.returned[1].instance = 0 /\ gc.returned[2].instance = 1
  /\ gc.returned[3].instance = 1
  /\ gc.attempts = 2 /\ gc.built = 1 /\ graphClient = "client"

====
